---- MODULE Spec2Model ----
(***************************************************************************)
(* Verification model of the request orchestration of lambda-slack-ai-bot: *)
(*   - WorkflowEngine.create_task_list / sort_tasks_by_dependency          *)
(*     (src/src/workflow/workflow_engine.py), specification SpecSched      *)
(*   - WorkflowEngine.execute_tasks, specification SpecExec                *)
(*   - WorkflowEngine.analyze_user_intent / parse_intent_response /        *)
(*     create_fallback_intent, specification SpecIntent                    *)
(*   - lambda_handler with get_context / put_context (src/handler.py),     *)
(*     specification SpecLambda                                            *)
(***************************************************************************)
EXTENDS Integers, Sequences, FiniteSets, TLC

(***************************************************************************)
(* Bounds of the model and program constants.                              *)
(***************************************************************************)
MaxTasks == 3

\* task_info.get('priority', 5)
DefaultPriority == 5

\* An explicit "priority" of the intent JSON; an absent one becomes DefaultPriority.
ExplicitPriority == 1

\* Ids the classifier gives to tasks, in order of first use; "ghost" is an id
\* that depends_on may name although no task carries it.
TaskIds == <<"a", "b", "c">>
GhostId == "ghost"

\* explicit "priority" values of the intent JSON
Priorities == {ExplicitPriority}

\* non-empty "depends_on" lists of the intent JSON, as sets of ids
DepSets == {{"a"}, {"b"}, {"c"}, {GhostId}, {"a", "b"}}

VARIABLES
    intent_tasks,     \* intent_data['required_tasks'] handed to create_task_list
    tasks,            \* the list create_task_list builds
    sorted_tasks,     \* sort_tasks_by_dependency: sorted_tasks
    remaining_tasks,  \* sort_tasks_by_dependency: remaining_tasks
    iterations,       \* number of iterations of the while loop so far
    cycle_breaks,     \* positions of sorted_tasks filled by the "not ready_tasks" branch
    sched_pc          \* "create" | "loop" | "done"

sched_vars == <<intent_tasks, tasks, sorted_tasks, remaining_tasks, iterations,
                cycle_breaks, sched_pc>>

VARIABLES
    task_list,        \* execute_tasks: the scheduled tasks (dicts mutated in place)
    task_index,       \* execute_tasks: i + 1 of the enumerate loop
    results,          \* execute_tasks: results, a dict keyed by task id
    attempts,         \* per task: calls of execute_single_task made for it
    progress_count,   \* calls of update_progress made by the loop
    pending_result,   \* value execute_single_task returned, not yet stored
    pending_error,    \* exception in flight inside the try block
    exec_pc           \* "idle" | "loop" | "progress" | "start" | "call" | "in_call"
                      \* | "store" | "except" | "done" | "raised"

exec_vars == <<task_list, task_index, results, attempts, progress_count,
               pending_result, pending_error, exec_pc>>

VARIABLES
    user_message,     \* analyze_user_intent: the keywords the user's message contains
    uploaded_image,   \* bool(context.get('uploaded_image'))
    backend_reply,    \* what openai_api.generate_chat_completion did
    backend_calls,    \* calls of the text backend made by analyze_user_intent
    intent_data,      \* the intent analyze_user_intent returned
    intent_fallback,  \* TRUE iff create_fallback_intent built intent_data
    intent_error,     \* exception that left analyze_user_intent
    intent_pc         \* "idle" | "start" | "called" | "returned" | "raised"

intent_vars == <<user_message, uploaded_image, backend_reply, backend_calls,
                 intent_data, intent_fallback, intent_error, intent_pc>>

VARIABLES
    table,            \* the DynamoDB table: item id -> "conversation" of the item
    expired_keys,     \* ids whose item the table's TTL has deleted at some time
    inv_body,         \* per invocation of lambda_handler: the parsed body
    inv_prompt,       \* per invocation: the local variable prompt
    inv_entry_seen,   \* per invocation: get_context found an item
    inv_handled,      \* per invocation: handler.handle was called
    inv_pc,           \* per invocation: "start" | "get" | "put" | "handle" | "returned"
    clock,            \* time.time(), in hours
    expire_at,        \* item id -> "expire_at" of the item last put under the id
    inv_expired,      \* per invocation: the item get_context found was past its
                      \* expire_at
    inv_written,      \* per invocation: put_context has returned
    inv_retry         \* per invocation: the body is the one of an earlier
                      \* invocation that had called the handler and returned

lambda_vars == <<table, expired_keys, inv_body, inv_prompt, inv_entry_seen,
                 inv_handled, inv_pc, clock, expire_at, inv_expired, inv_written,
                 inv_retry>>

VARIABLES
    single_task,      \* execute_single_task: the task (its type, whether
                      \* _contains_korean(task['input']) holds, and what
                      \* task.get('uploaded_image') is)
    slack_thread_ts,  \* slack_context.get("thread_ts")
    thread_reply,     \* get_thread_messages: what conversations_replies did
    thread_messages,  \* _execute_thread_summary: "unfetched" | "empty" | "messages"
    calls,            \* calls made so far, per call site of the executor
    gemini_error,     \* _execute_gemini_image_generation and
                      \* _execute_gemini_video_generation: message of the caught e
    image_error,      \* _execute_image_generation: the exception its except re-raises
    dalle_error,      \* _execute_gemini_image_generation: the caught dalle_error
    fallback_active,  \* _execute_image_generation was called from the Gemini handler
    attempt,          \* _execute_image_generation: attempt of the download loop
    file_data,        \* _execute_image_generation: "None" | "empty" | "bytes"
    task_result,      \* the result execute_single_task returned
    task_raised,      \* the exception that left execute_single_task
    executor_pc       \* position inside execute_single_task

executor_vars == <<single_task, slack_thread_ts, thread_reply, thread_messages, calls,
                   gemini_error, image_error, dalle_error, fallback_active, attempt,
                   file_data, task_result, task_raised, executor_pc>>

VARIABLES
    request_message,    \* process_user_request: the keywords user_message contains
    request_image,      \* bool(context.get('uploaded_image'))
    sink_log,           \* the posts, updates and uploads that reached the conversation
    sink_calls,         \* the calls of say() and update_message the engine issued
                        \* and the say() of the fallback handler's cursor,
                        \* whether they succeeded or not
    latest_ts,          \* ts of the message the initial say() posted
    request_tasks,      \* task_list, in scheduled order
    request_index,      \* execute_tasks: i + 1
    aggregated_results, \* what aggregate_results returned
    workflow_error,     \* exception caught by "except Exception as e" of
                        \* process_user_request
    request_pc          \* position inside process_user_request

request_vars == <<request_message, request_image, sink_log, sink_calls, latest_ts,
                  request_tasks, request_index, aggregated_results, workflow_error,
                  request_pc>>

VARIABLES
    stream_counter,   \* reply_text_stream: counter, the parts of the stream seen
    stream_message,   \* reply_text_stream: len(message)
    buffer_size,      \* reply_text_stream: buffer_size
    stream_updates,   \* the calls of chat_update reply_text_stream has made
    stream_pc,        \* position inside reply_text_stream
    update_input,     \* chat_update: the message and continue_thread it is called with
    update_calls,     \* chat_update: its calls of update_message and say, in order
    update_returned,  \* chat_update: the message it returns
    update_pc         \* position inside chat_update

slack_vars == <<stream_counter, stream_message, buffer_size, stream_updates, stream_pc,
                update_input, update_calls, update_returned, update_pc>>

vars == <<sched_vars, exec_vars, intent_vars, lambda_vars, executor_vars, request_vars,
          slack_vars>>

(***************************************************************************)
(* Generic helpers for Python lists and dicts.                             *)
(***************************************************************************)
\* dict.get(key, default) for a key that is either absent ({}) or present ({v})
Get(field, default) == IF field = {} THEN default ELSE CHOOSE v \in field : TRUE

\* number of elements of seq equal to x (dict equality, as list.remove uses)
Count(seq, x) == Cardinality({k \in 1..Len(seq) : seq[k] = x})

\* a remove that drops every element equal to x
RemoveAllEqual(seq, x) == SelectSeq(seq, LAMBDA y : y # x)

\* list.remove(x): drops the first element equal to x
Remove(seq, x) ==
    IF \E k \in 1..Len(seq) : seq[k] = x
    THEN LET k == CHOOSE j \in 1..Len(seq) :
                      seq[j] = x /\ \A m \in 1..(j - 1) : seq[m] # x
         IN  SubSeq(seq, 1, k - 1) \o SubSeq(seq, k + 1, Len(seq))
    ELSE seq

RECURSIVE RemoveEach(_, _)
\* for task in ready_tasks: remaining_tasks.remove(task)
RemoveEach(seq, xs) ==
    IF xs = <<>> THEN seq ELSE RemoveEach(Remove(seq, Head(xs)), Tail(xs))

\* insertion of t behind every element whose priority is <= t.priority
InsertByPriority(seq, t) ==
    LET k == Cardinality({j \in 1..Len(seq) : seq[j].priority <= t.priority})
    IN  SubSeq(seq, 1, k) \o <<t>> \o SubSeq(seq, k + 1, Len(seq))

RECURSIVE SortedByPriorityAcc(_, _)
SortedByPriorityAcc(acc, seq) ==
    IF seq = <<>> THEN acc
    ELSE SortedByPriorityAcc(InsertByPriority(acc, Head(seq)), Tail(seq))

\* a sort that leaves the list as it is
SortedByPriorityOmitted(seq) == seq

\* sorted(seq, key=lambda x: x['priority']) / list.sort(key=...): stable
SortedByPriority(seq) == SortedByPriorityAcc(<<>>, seq)

(***************************************************************************)
(* WorkflowEngine.create_task_list                                         *)
(***************************************************************************)
NoValue == "None"

(***************************************************************************)
(* JSON values of the classifier's reply, as far as the parser looks at    *)
(* them: the type, the names n for which the Python test "n in value" is   *)
(* true (keys of an object, elements of an array, substrings of a string), *)
(* and for an intent object the value of its "required_tasks".             *)
(***************************************************************************)
MaxJsonTasks == 2

IntentFields == {"user_intent", "required_tasks"}
TaskFields == {"task_id", "task_type", "description"}

NoTasks == [jtype |-> "null", elems |-> <<>>]

\* elements of "required_tasks": task objects, complete or lacking one
\* field, and a number; depends_on is {} when the object has no "depends_on"
\* and {ids} when it has one
JsonTaskValues ==
    {[jtype |-> "dict", has |-> TaskFields \ missing, task_type |-> "text_generation",
      depends_on |-> {}] :
         missing \in {{}} \cup {{f} : f \in TaskFields}}
    \cup {[jtype |-> "num", has |-> {}, task_type |-> NoValue, depends_on |-> {}]}

JsonTaskLists == UNION {[1..n -> JsonTaskValues] : n \in 0..MaxJsonTasks}

\* values of "required_tasks": arrays, a number, an empty string
JsonTasksValues ==
    {[jtype |-> "list", elems |-> l] : l \in JsonTaskLists}
    \cup {[jtype |-> "num", elems |-> <<>>], [jtype |-> "str", elems |-> <<>>]}

\* top-level values: objects, arrays, strings, numbers
JsonValues ==
    {[jtype |-> "dict", has |-> IntentFields, tasks |-> t] : t \in JsonTasksValues}
    \cup {[jtype |-> "dict", has |-> h, tasks |-> NoTasks] :
              h \in (SUBSET IntentFields) \ {IntentFields}}
    \cup {[jtype |-> j, has |-> h, tasks |-> NoTasks] :
              j \in {"list", "str"}, h \in SUBSET IntentFields}
    \cup {[jtype |-> "num", has |-> {}, tasks |-> NoTasks]}

NoJsonValue == [jtype |-> "null", has |-> {}, tasks |-> NoTasks]

\* the reply text as a sequence of tokens: code-fence markers, prose, and
\* complete JSON texts
FenceToken == [tok |-> "fence", value |-> NoJsonValue]
ProseToken == [tok |-> "prose", value |-> NoJsonValue]
JsonToken(v) == [tok |-> "json", value |-> v]

ReplyContents ==
    {<<>>, <<ProseToken>>}
    \cup UNION {{<<JsonToken(v)>>, <<FenceToken, JsonToken(v), FenceToken>>,
                 <<ProseToken, JsonToken(v)>>} : v \in JsonValues}

\* what the backend call does: it raises, or returns a message whose content
\* is None or a text
BackendReplies ==
    {[kind |-> "raises", content |-> <<>>], [kind |-> "none", content |-> <<>>]}
    \cup {[kind |-> "text", content |-> c] : c \in ReplyContents}

NewTask(task_info) ==
    [ id           |-> task_info.task_id,
      type         |-> task_info.task_type,
      priority     |-> Get(task_info.priority, DefaultPriority),
      dependencies |-> Get(task_info.depends_on, {}),
      status       |-> "pending",
      result       |-> NoValue,
      error        |-> NoValue ]

BuildTasks(infos) == [k \in 1..Len(infos) |-> NewTask(infos[k])]

(***************************************************************************)
(* WorkflowEngine.sort_tasks_by_dependency                                 *)
(***************************************************************************)
IdsOf(seq) == {seq[k].id : k \in 1..Len(seq)}

UniqueIds(seq) == \A j, k \in 1..Len(seq) : seq[j].id = seq[k].id => j = k

\* any(...) in place of all(...)
DependenciesMetAny(task, done) ==
    task.dependencies = {} \/ \E dep_id \in task.dependencies : dep_id \in IdsOf(done)

\* all(dep_id in [t['id'] for t in sorted_tasks] for dep_id in task['dependencies'])
DependenciesMet(task, done) == \A dep_id \in task.dependencies : dep_id \in IdsOf(done)

\* a scan that takes every remaining task for ready
ReadyTasksAll(remaining, done) == remaining

ReadyTasks(remaining, done) ==
    SelectSeq(remaining, LAMBDA t : DependenciesMet(t, done))

\* a cycle break that selects no task
CycleBreakChoiceNone(remaining) == <<>>

\* a cycle break that selects the last task of the priority order
CycleBreakChoiceLast(remaining) ==
    SubSeq(SortedByPriority(remaining), Len(remaining), Len(remaining))

\* sorted(remaining_tasks, key=lambda x: x['priority'])[:1]
CycleBreakChoice(remaining) == SubSeq(SortedByPriority(remaining), 1, 1)

\* the ready_tasks one iteration of the while loop appends and removes
IterationTasks(remaining, done) ==
    IF ReadyTasks(remaining, done) # <<>>
    THEN SortedByPriority(ReadyTasks(remaining, done))
    ELSE SortedByPriority(CycleBreakChoice(remaining))

CreateTaskList ==
    /\ sched_pc = "create"
    /\ tasks' = BuildTasks(intent_tasks)
    /\ sorted_tasks' = <<>>
    /\ remaining_tasks' = BuildTasks(intent_tasks)
    /\ sched_pc' = "loop"
    /\ UNCHANGED <<intent_tasks, iterations, cycle_breaks>>
    /\ UNCHANGED <<exec_vars, intent_vars, lambda_vars, executor_vars, request_vars,
                   slack_vars>>

\* one iteration of "while remaining_tasks" in which some task is ready
SortReadyLayer ==
    /\ sched_pc = "loop"
    /\ remaining_tasks # <<>>
    /\ ReadyTasks(remaining_tasks, sorted_tasks) # <<>>
    /\ LET ready_tasks == IterationTasks(remaining_tasks, sorted_tasks)
       IN  /\ sorted_tasks' = sorted_tasks \o ready_tasks
           /\ remaining_tasks' = RemoveEach(remaining_tasks, ready_tasks)
    /\ iterations' = iterations + 1
    /\ UNCHANGED cycle_breaks
    /\ UNCHANGED <<intent_tasks, tasks, sched_pc>>
    /\ UNCHANGED <<exec_vars, intent_vars, lambda_vars, executor_vars, request_vars,
                   slack_vars>>

\* one iteration of "while remaining_tasks" in which no task is ready
SortCycleBreak ==
    /\ sched_pc = "loop"
    /\ remaining_tasks # <<>>
    /\ ReadyTasks(remaining_tasks, sorted_tasks) = <<>>
    /\ LET ready_tasks == IterationTasks(remaining_tasks, sorted_tasks)
       IN  /\ sorted_tasks' = sorted_tasks \o ready_tasks
           /\ remaining_tasks' = RemoveEach(remaining_tasks, ready_tasks)
    /\ iterations' = iterations + 1
    /\ cycle_breaks' = cycle_breaks \cup {Len(sorted_tasks) + 1}
    /\ UNCHANGED <<intent_tasks, tasks, sched_pc>>
    /\ UNCHANGED <<exec_vars, intent_vars, lambda_vars, executor_vars, request_vars,
                   slack_vars>>

\* the loop condition fails: return sorted_tasks
SortReturn ==
    /\ sched_pc = "loop"
    /\ remaining_tasks = <<>>
    /\ sched_pc' = "done"
    /\ UNCHANGED <<intent_tasks, tasks, sorted_tasks, remaining_tasks, iterations,
                   cycle_breaks>>
    /\ UNCHANGED <<exec_vars, intent_vars, lambda_vars, executor_vars, request_vars,
                   slack_vars>>

TaskInfos ==
    [ task_id    : {TaskIds[k] : k \in 1..Len(TaskIds)},
      task_type  : {"text_generation"},
      priority   : {{}} \cup {{p} : p \in Priorities},
      depends_on : {{}} \cup {{d} : d \in DepSets} ]

IdRank(id) == CHOOSE k \in 1..Len(TaskIds) : TaskIds[k] = id

\* Ids are opaque to the engine (only compared for equality), so task lists are
\* enumerated up to renaming: every task reuses an earlier id or takes the
\* next unused one.
FirstUseOrder(infos) ==
    \A k \in 1..Len(infos) :
        \/ IdRank(infos[k].task_id) = 1
        \/ \E j \in 1..(k - 1) : IdRank(infos[j].task_id) >= IdRank(infos[k].task_id) - 1

\* the lists of at most MaxTasks task_info objects drawn from infos
TaskInfoLists(infos) ==
    UNION {{l \in [1..n -> infos] : FirstUseOrder(l)} : n \in 0..MaxTasks}

IntentTaskLists == TaskInfoLists(TaskInfos)

NoCalls ==
    [text |-> 0, dalle |-> 0, gemini |-> 0, download |-> 0, upload |-> 0,
     thread_fetch |-> 0, dalle_path |-> 0, encode |-> 0, vision |-> 0, video |-> 0]

NoError == [at |-> NoValue, message |-> NoValue]

NoResult == [kind |-> NoValue, fields |-> {}]

NoAggregate == [text_content |-> <<>>, images |-> <<>>, analyses |-> <<>>, errors |-> <<>>]

RequestIdle ==
    /\ request_message = {}
    /\ request_image = FALSE
    /\ sink_log = <<>>
    /\ sink_calls = <<>>
    /\ latest_ts = NoValue
    /\ request_tasks = <<>>
    /\ request_index = 1
    /\ aggregated_results = NoAggregate
    /\ workflow_error = NoValue
    /\ request_pc = "idle"

StreamIdle ==
    /\ stream_counter = 0
    /\ stream_message = 0
    /\ buffer_size = 0
    /\ stream_updates = <<>>
    /\ stream_pc = "idle"

UpdateIdle ==
    /\ update_input = [message |-> <<>>, continue_thread |-> FALSE]
    /\ update_calls = <<>>
    /\ update_returned = NoValue
    /\ update_pc = "idle"

ExecutorIdle ==
    /\ single_task = [type |-> NoValue, korean |-> FALSE, uploaded_image |-> NoValue]
    /\ slack_thread_ts = NoValue
    /\ thread_reply = NoValue
    /\ thread_messages = "unfetched"
    /\ calls = NoCalls
    /\ gemini_error = NoError
    /\ image_error = NoError
    /\ dalle_error = NoError
    /\ fallback_active = FALSE
    /\ attempt = 0
    /\ file_data = NoValue
    /\ task_result = NoResult
    /\ task_raised = NoError
    /\ executor_pc = "idle"

LambdaIdle ==
    /\ table = <<>>
    /\ expired_keys = {}
    /\ inv_body = <<>>
    /\ inv_prompt = <<>>
    /\ inv_entry_seen = <<>>
    /\ inv_handled = <<>>
    /\ inv_pc = <<>>
    /\ clock = 0
    /\ expire_at = <<>>
    /\ inv_expired = <<>>
    /\ inv_written = <<>>
    /\ inv_retry = <<>>

IntentIdle ==
    /\ user_message = {}
    /\ uploaded_image = FALSE
    /\ backend_reply = [kind |-> "none", content |-> <<>>]
    /\ backend_calls = 0
    /\ intent_data = NoJsonValue
    /\ intent_fallback = FALSE
    /\ intent_error = NoValue
    /\ intent_pc = "idle"

ExecIdle ==
    /\ task_list = <<>>
    /\ task_index = 1
    /\ results = <<>>
    /\ attempts = <<>>
    /\ progress_count = 0
    /\ pending_result = NoValue
    /\ pending_error = NoValue
    /\ exec_pc = "idle"

SchedInit ==
    /\ StreamIdle
    /\ UpdateIdle
    /\ ExecutorIdle
    /\ RequestIdle
    /\ ExecIdle
    /\ IntentIdle
    /\ LambdaIdle
    /\ intent_tasks \in IntentTaskLists
    /\ tasks = <<>>
    /\ sorted_tasks = <<>>
    /\ remaining_tasks = <<>>
    /\ iterations = 0
    /\ cycle_breaks = {}
    /\ sched_pc = "create"

SchedNext == CreateTaskList \/ SortReadyLayer \/ SortCycleBreak \/ SortReturn

SpecSched == SchedInit /\ [][SchedNext]_vars

(***************************************************************************)
(* WorkflowEngine.execute_tasks                                            *)
(***************************************************************************)
RECURSIVE SortLoop(_, _)
\* the while loop of sort_tasks_by_dependency, run to its end
SortLoop(done, remaining) ==
    IF remaining = <<>> THEN done
    ELSE SortLoop(done \o IterationTasks(remaining, done),
                  RemoveEach(remaining, IterationTasks(remaining, done)))

\* create_task_list(intent_data, context)
TaskListOf(infos) == SortLoop(<<>>, BuildTasks(infos))

\* task types: two the dispatch table of execute_single_task knows and one it
\* does not
TaskTypes == {"text_generation", "image_generation", "video_editing"}

\* exception classes raised inside the try block; all derive from Exception
ExceptionClasses == {"ValueError", "Exception", "SlackApiError"}

\* what execute_single_task does for a task of the given type: it returns a
\* result of some kind or raises
ExecuteOutcomes(type) ==
    CASE type = "text_generation" ->
             {[raised |-> NoValue, result |-> "text"],
              [raised |-> "Exception", result |-> NoValue]}
      [] type = "image_generation" ->
             {[raised |-> NoValue, result |-> "image"],
              [raised |-> "Exception", result |-> NoValue]}
      [] OTHER ->
             {[raised |-> "ValueError", result |-> NoValue]}

\* an update_progress without its try/except: a failed chat update propagates
UpdateProgressUnguarded(slack_ok) == ~slack_ok

\* update_progress: "except Exception" logs a failed chat update and returns
UpdateProgressRaises(slack_ok) == FALSE

\* a handler that catches ValueError only
ExceptValueErrorCatches(exc) == exc = "ValueError"

\* "except Exception as e" of execute_tasks
ExceptExceptionCatches(exc) == exc \in ExceptionClasses

\* a success path that forgets task['status'] = 'completed'
MarkCompletedNoStatus(task, result) == [task EXCEPT !.result = result]

\* task['status'] = 'completed'; task['result'] = result
MarkCompleted(task, result) == [task EXCEPT !.status = "completed", !.result = result]

\* an except block that forgets task['error'] = str(e)
MarkFailedNoError(task, exc) == [task EXCEPT !.status = "failed"]

\* task['status'] = 'failed'; task['error'] = str(e)
MarkFailed(task, exc) == [task EXCEPT !.status = "failed", !.error = exc]

\* results[task['id']] = task
Store(dict, task) ==
    [id \in DOMAIN dict \cup {task.id} |-> IF id = task.id THEN task ELSE dict[id]]

\* for i, task in enumerate(task_list): next task, or return results
LoopNext ==
    /\ exec_pc = "loop"
    /\ exec_pc' = IF task_index <= Len(task_list) THEN "progress" ELSE "done"
    /\ UNCHANGED <<task_list, task_index, results, attempts, progress_count,
                   pending_result, pending_error>>
    /\ UNCHANGED <<sched_vars, intent_vars, lambda_vars, executor_vars, request_vars,
                   slack_vars>>

\* self.update_progress(progress_ts, progress)
UpdateProgress ==
    /\ exec_pc = "progress"
    /\ progress_count' = progress_count + 1
    /\ \E slack_ok \in BOOLEAN :
          IF UpdateProgressRaises(slack_ok)
          THEN exec_pc' = "except" /\ pending_error' = "SlackApiError"
          ELSE exec_pc' = "start" /\ UNCHANGED pending_error
    /\ UNCHANGED <<task_list, task_index, results, attempts, pending_result>>
    /\ UNCHANGED <<sched_vars, intent_vars, lambda_vars, executor_vars, request_vars,
                   slack_vars>>

\* task['status'] = 'running'; start_time = time.time()
StartTask ==
    /\ exec_pc = "start"
    /\ task_list' = [task_list EXCEPT ![task_index].status = "running"]
    /\ exec_pc' = "call"
    /\ UNCHANGED <<task_index, results, attempts, progress_count, pending_result,
                   pending_error>>
    /\ UNCHANGED <<sched_vars, intent_vars, lambda_vars, executor_vars, request_vars,
                   slack_vars>>

\* result = self.task_executor.execute_single_task(task)
ExecuteSingleTask ==
    /\ exec_pc = "call"
    /\ attempts' = [attempts EXCEPT ![task_index] = @ + 1]
    /\ \E outcome \in ExecuteOutcomes(task_list[task_index].type) :
          IF outcome.raised = NoValue
          THEN /\ pending_result' = outcome.result
               /\ exec_pc' = "store"
               /\ UNCHANGED pending_error
          ELSE /\ pending_error' = outcome.raised
               /\ exec_pc' = "except"
               /\ UNCHANGED pending_result
    /\ UNCHANGED <<task_list, task_index, results, progress_count>>
    /\ UNCHANGED <<sched_vars, intent_vars, lambda_vars, executor_vars, request_vars,
                   slack_vars>>

\* the rest of the try block: the task is completed and stored
CompleteTask ==
    /\ exec_pc = "store"
    /\ LET task == MarkCompleted(task_list[task_index], pending_result)
       IN  /\ task_list' = [task_list EXCEPT ![task_index] = task]
           /\ results' = Store(results, task)
    /\ pending_result' = NoValue
    /\ task_index' = task_index + 1
    /\ exec_pc' = "loop"
    /\ UNCHANGED <<attempts, progress_count, pending_error>>
    /\ UNCHANGED <<sched_vars, intent_vars, lambda_vars, executor_vars, request_vars,
                   slack_vars>>

\* the except block: the task is failed and stored; an exception the handler
\* does not catch leaves execute_tasks
FailTask ==
    /\ exec_pc = "except"
    /\ IF ExceptExceptionCatches(pending_error)
       THEN /\ LET task == MarkFailed(task_list[task_index], pending_error)
               IN  /\ task_list' = [task_list EXCEPT ![task_index] = task]
                   /\ results' = Store(results, task)
            /\ pending_error' = NoValue
            /\ task_index' = task_index + 1
            /\ exec_pc' = "loop"
       ELSE /\ exec_pc' = "raised"
            /\ UNCHANGED <<task_list, results, pending_error, task_index>>
    /\ UNCHANGED <<attempts, progress_count, pending_result>>
    /\ UNCHANGED <<sched_vars, intent_vars, lambda_vars, executor_vars, request_vars,
                   slack_vars>>

ExecTaskInfos ==
    [ task_id    : {TaskIds[k] : k \in 1..Len(TaskIds)},
      task_type  : TaskTypes,
      priority   : {{}},
      depends_on : {{}} ]

ExecTaskLists == {TaskListOf(infos) : infos \in TaskInfoLists(ExecTaskInfos)}

SchedIdle ==
    /\ intent_tasks = <<>>
    /\ tasks = <<>>
    /\ sorted_tasks = <<>>
    /\ remaining_tasks = <<>>
    /\ iterations = 0
    /\ cycle_breaks = {}
    /\ sched_pc = "idle"

ExecInit ==
    /\ StreamIdle
    /\ UpdateIdle
    /\ ExecutorIdle
    /\ RequestIdle
    /\ SchedIdle
    /\ IntentIdle
    /\ LambdaIdle
    /\ task_list \in ExecTaskLists
    /\ task_index = 1
    /\ results = <<>>
    /\ attempts = [k \in 1..Len(task_list) |-> 0]
    /\ progress_count = 0
    /\ pending_result = NoValue
    /\ pending_error = NoValue
    /\ exec_pc = "loop"

ExecNext ==
    LoopNext \/ UpdateProgress \/ StartTask \/ ExecuteSingleTask \/ CompleteTask \/ FailTask

SpecExec == ExecInit /\ [][ExecNext]_vars

(***************************************************************************)
(* WorkflowEngine.parse_intent_response                                    *)
(***************************************************************************)
\* re.sub(r'```json\n|```\n|```', '', response_content).strip()
StripFences(content) == SelectSeq(content, LAMBDA t : t.tok # "fence")

\* json.loads: the text must be exactly one JSON text
JsonLoads(content) ==
    IF Len(content) = 1 /\ content[1].tok = "json"
    THEN [raised |-> NoValue, value |-> content[1].value]
    ELSE [raised |-> "JSONDecodeError", value |-> NoJsonValue]

\* the Python test "name in value": a TypeError for a number or null
InRaises(value) == value.jtype \in {"num", "null"}

\* exception of "for field in required: if field not in value: raise ValueError"
FieldsCheck(value, required) ==
    IF required = {} THEN NoValue
    ELSE IF InRaises(value) THEN "TypeError"
    ELSE IF ~(required \subseteq value.has) THEN "ValueError"
    ELSE NoValue

RECURSIVE TasksCheck(_)
\* exception of the loop over result['required_tasks'], task by task
TasksCheck(elems) ==
    IF elems = <<>> THEN NoValue
    ELSE IF FieldsCheck(Head(elems), TaskFields) # NoValue
         THEN FieldsCheck(Head(elems), TaskFields)
         ELSE TasksCheck(Tail(elems))

\* a validation that checks the top-level fields only
ValidateIntentTopLevelOnly(result) == FieldsCheck(result, IntentFields)

\* exception of the validation part of parse_intent_response
ValidateIntent(result) ==
    IF FieldsCheck(result, IntentFields) # NoValue
    THEN FieldsCheck(result, IntentFields)
    ELSE IF result.jtype # "dict" THEN "TypeError"          \* result['required_tasks']
    ELSE IF result.tasks.jtype \in {"num", "null"} THEN "TypeError"   \* for task in ...
    ELSE TasksCheck(result.tasks.elems)

\* parse_intent_response: the parsed intent, or the exception it raises (its
\* except clause logs JSONDecodeError and ValueError and raises them again)
ParseIntentResponse(reply) ==
    IF reply.kind = "none"
    THEN [raised |-> "TypeError", value |-> NoJsonValue]            \* re.sub(None)
    ELSE LET loaded == JsonLoads(StripFences(reply.content))
         IN  IF loaded.raised # NoValue THEN loaded
             ELSE IF ValidateIntent(loaded.value) # NoValue
                  THEN [raised |-> ValidateIntent(loaded.value), value |-> NoJsonValue]
                  ELSE loaded

(***************************************************************************)
(* WorkflowEngine.create_fallback_intent                                   *)
(***************************************************************************)
\* the keyword list of the fallback: "그려", "그림", "이미지", "생성"
ImageKeywords == {"geuryeo", "geurim", "imiji", "saengseong"}

\* "요약", a word that asks for a summary; no keyword of the fallback
SummaryKeyword == "yoyak"

\* user messages, as the sets of fragments they contain: image keywords,
\* "yoyak" for "요약" and "annyeong" for "안녕"
UserMessages == {{}, {"annyeong"}, {"geuryeo"}, {"annyeong", "imiji"}, {"yoyak"}}

\* a fallback without the keyword test
FallbackTaskTypeNoKeywords(message, has_image) ==
    IF has_image THEN "image_analysis" ELSE "text_generation"

\* a fallback with a third keyword class, for "요약"
FallbackTaskTypeWithSummary(message, has_image) ==
    IF has_image THEN "image_analysis"
    ELSE IF \E keyword \in ImageKeywords : keyword \in message THEN "image_generation"
    ELSE IF SummaryKeyword \in message THEN "thread_summary"
    ELSE "text_generation"

FallbackTaskType(message, has_image) ==
    IF has_image THEN "image_analysis"
    ELSE IF \E keyword \in ImageKeywords : keyword \in message THEN "image_generation"
    ELSE "text_generation"

\* a fallback that returns no task when no keyword class matches
CreateFallbackIntentNoDefault(message, has_image) ==
    [ jtype |-> "dict",
      has   |-> IntentFields \cup {"execution_strategy", "estimated_time"},
      tasks |-> [ jtype |-> "list",
                  elems |-> IF FallbackTaskType(message, has_image) = "text_generation"
                            THEN <<>>
                            ELSE << [ jtype     |-> "dict",
                                      has       |-> TaskFields \cup {"input_data", "priority",
                                                                    "depends_on"},
                                      task_type |-> FallbackTaskType(message, has_image),
                                      depends_on |-> {{}} ] >> ] ]

CreateFallbackIntent(message, has_image) ==
    [ jtype |-> "dict",
      has   |-> IntentFields \cup {"execution_strategy", "estimated_time"},
      tasks |-> [ jtype |-> "list",
                  elems |-> << [ jtype     |-> "dict",
                                 has       |-> TaskFields \cup {"input_data", "priority",
                                                               "depends_on"},
                                 task_type |-> FallbackTaskType(message, has_image),
                                 depends_on |-> {{}} ] >> ] ]

(***************************************************************************)
(* WorkflowEngine.analyze_user_intent                                      *)
(***************************************************************************)
ParseErrors == {"JSONDecodeError", "ValueError"}

\* a handler that catches the two parse errors only
ExceptParseErrorsCatches(exc) == exc \in ParseErrors

\* "except Exception as e" of analyze_user_intent
IntentExceptCatches(exc) == exc \in ParseErrors \cup {"TypeError", "OpenAIApiError"}

\* openai_api.generate_chat_completion(...)
CallIntentBackend ==
    /\ intent_pc = "start"
    /\ backend_reply' \in BackendReplies
    /\ backend_calls' = backend_calls + 1
    /\ intent_pc' = "called"
    /\ UNCHANGED <<user_message, uploaded_image, intent_data, intent_fallback,
                   intent_error>>
    /\ UNCHANGED <<sched_vars, exec_vars, lambda_vars, executor_vars, request_vars,
                   slack_vars>>

\* the rest of the try block and the except block
FinishIntent ==
    /\ intent_pc = "called"
    /\ LET parsed == IF backend_reply.kind = "raises"
                     THEN [raised |-> "OpenAIApiError", value |-> NoJsonValue]
                     ELSE ParseIntentResponse(backend_reply)
       IN  IF parsed.raised = NoValue
           THEN /\ intent_data' = parsed.value
                /\ intent_pc' = "returned"
                /\ UNCHANGED <<intent_fallback, intent_error>>
           ELSE IF IntentExceptCatches(parsed.raised)
           THEN /\ intent_data' = CreateFallbackIntent(user_message, uploaded_image)
                /\ intent_fallback' = TRUE
                /\ intent_pc' = "returned"
                /\ UNCHANGED intent_error
           ELSE /\ intent_error' = parsed.raised
                /\ intent_pc' = "raised"
                /\ UNCHANGED <<intent_data, intent_fallback>>
    /\ UNCHANGED <<user_message, uploaded_image, backend_reply, backend_calls>>
    /\ UNCHANGED <<sched_vars, exec_vars, lambda_vars, executor_vars, request_vars,
                   slack_vars>>

IntentInit ==
    /\ StreamIdle
    /\ UpdateIdle
    /\ ExecutorIdle
    /\ RequestIdle
    /\ SchedIdle
    /\ ExecIdle
    /\ LambdaIdle
    /\ user_message \in UserMessages
    /\ uploaded_image \in BOOLEAN
    /\ backend_reply = [kind |-> "none", content |-> <<>>]
    /\ backend_calls = 0
    /\ intent_data = NoJsonValue
    /\ intent_fallback = FALSE
    /\ intent_error = NoValue
    /\ intent_pc = "start"

IntentNext == CallIntentBackend \/ FinishIntent

SpecIntent == IntentInit /\ [][IntentNext]_vars

(***************************************************************************)
(* Properties of the intent classifier.                                    *)
(***************************************************************************)
\* C2: analyze_user_intent never raises: whatever the text backend does
\* (exception, no content, non-JSON text, JSON of the wrong shape, JSON
\* lacking a field, valid JSON), it returns an object with the fields
\* user_intent and required_tasks.
IntentNeverRaises ==
    /\ intent_pc # "raised"
    /\ intent_error = NoValue
    /\ intent_pc = "returned" =>
          /\ intent_data.jtype = "dict"
          /\ IntentFields \subseteq intent_data.has

\* the fallback answered a reply that is valid JSON of the wrong shape: an
\* array that contains both field names, which passes the field test and
\* then fails with a TypeError
IntentNeverRaisesWitness ==
    /\ intent_pc = "returned"
    /\ intent_fallback
    /\ backend_reply.kind = "text"
    /\ Len(backend_reply.content) = 1
    /\ backend_reply.content[1].value.jtype = "list"
    /\ backend_reply.content[1].value.has = IntentFields

\* the classifier's reply as the JSON value it holds, when it is one JSON text
\* (code fences aside)
ReplyIsJson ==
    /\ backend_reply.kind = "text"
    /\ Cardinality({k \in 1..Len(backend_reply.content) :
                       backend_reply.content[k].tok = "json"}) = 1
    /\ \A k \in 1..Len(backend_reply.content) : backend_reply.content[k].tok # "prose"

ReplyValue ==
    backend_reply.content[CHOOSE k \in 1..Len(backend_reply.content) :
                              backend_reply.content[k].tok = "json"].value

ReplyTasks == ReplyValue.tasks.elems

\* the reply is an object with both top-level fields and an array of tasks
ReplyHasTaskList ==
    /\ ReplyIsJson
    /\ ReplyValue.jtype = "dict"
    /\ IntentFields \subseteq ReplyValue.has
    /\ ReplyValue.tasks.jtype = "list"

\* the reply is not valid JSON
ReplyNotJson == backend_reply.kind = "text" /\ ~ReplyIsJson

\* the reply is a JSON object that lacks a required top-level field
ReplyLacksField ==
    ReplyIsJson /\ ReplyValue.jtype = "dict" /\ ~(IntentFields \subseteq ReplyValue.has)

\* some task of the reply is an object that lacks task_id, task_type or
\* description
ReplyTaskLacksField ==
    /\ ReplyHasTaskList
    /\ \E k \in 1..Len(ReplyTasks) :
          ReplyTasks[k].jtype = "dict" /\ ~(TaskFields \subseteq ReplyTasks[k].has)

FallbackReturned ==
    /\ intent_pc = "returned"
    /\ intent_fallback

OneTask(intent) == intent.tasks.jtype = "list" /\ Len(intent.tasks.elems) = 1

\* C14: a reply that is not valid JSON, or is a JSON object lacking
\* user_intent or required_tasks, or has a task lacking task_id, task_type or
\* description, is discarded as a whole: analyze_user_intent returns the
\* fallback intent, which has exactly one task.
InvalidReplyGivesFallback ==
    (intent_pc = "returned" /\ (ReplyNotJson \/ ReplyLacksField \/ ReplyTaskLacksField)) =>
        /\ intent_fallback
        /\ OneTask(intent_data)
        /\ intent_data.tasks.elems[1].task_type
               \in {"image_analysis", "image_generation", "text_generation"}

\* the fallback answered a reply whose first task is complete and whose
\* second task lacks a field
InvalidReplyGivesFallbackWitness ==
    /\ FallbackReturned
    /\ ReplyTaskLacksField
    /\ Len(ReplyTasks) = 2
    /\ TaskFields \subseteq ReplyTasks[1].has
    /\ ReplyTasks[2].jtype = "dict"

\* C15: a reply that is valid JSON with an empty required_tasks list is a
\* validation failure: analyze_user_intent returns the single-task fallback
\* intent, never an intent with zero tasks.
EmptyTaskListRejected ==
    (intent_pc = "returned" /\ ReplyHasTaskList /\ ReplyTasks = <<>>) =>
        /\ intent_fallback
        /\ OneTask(intent_data)

HasImageKeyword(message) == message \cap ImageKeywords # {}

\* C16: the fallback classifier, for a message with an image keyword and no
\* attached image, returns an intent whose single task is image_generation.
FallbackImageKeyword ==
    (FallbackReturned /\ HasImageKeyword(user_message) /\ ~uploaded_image) =>
        /\ OneTask(intent_data)
        /\ intent_data.tasks.elems[1].task_type = "image_generation"

\* the fallback classified "안녕 ... 이미지" without an attached image
FallbackImageKeywordWitness ==
    /\ FallbackReturned
    /\ user_message = {"annyeong", "imiji"}
    /\ ~uploaded_image
    /\ intent_data.tasks.elems[1].task_type = "image_generation"

FallbackTotalNoCalls ==
    intent_fallback =>
        /\ intent_pc = "returned"
        /\ intent_error = NoValue
        /\ backend_calls = 1
        /\ OneTask(intent_data)
        /\ intent_data.tasks.elems[1].jtype = "dict"
        /\ TaskFields \cup {"depends_on"} \subseteq intent_data.tasks.elems[1].has
        /\ intent_data.tasks.elems[1].depends_on = {{}}

\* the fallback answered a failed backend call for a message of no keyword
\* class
FallbackTotalNoCallsWitness ==
    /\ FallbackReturned
    /\ backend_reply.kind = "raises"
    /\ user_message = {}
    /\ ~uploaded_image
    /\ backend_calls = 1

(***************************************************************************)
(* TaskExecutor.execute_single_task (src/src/workflow/task_executor.py)    *)
(***************************************************************************)
\* task types: six of the dispatch table and one it does not know
ExecutorTaskTypes ==
    {"text_generation", "image_generation", "image_analysis", "thread_summary",
     "gemini_image_generation", "gemini_video_generation", "video_editing"}

\* task.get('uploaded_image'): absent, a dict with the key 'base64', or a dict
\* with a 'url' only
UploadedImages == {NoValue, "base64", "url"}

\* max_retries = 3
MaxRetries == 3

\* the keywords the Gemini handler looks for in str(e).lower(); an error
\* message is modelled by the keyword it contains, or by a text with none
UnavailableKeywords ==
    {"allowlist", "not enabled", "not supported", "no generated image", "no images",
     "empty response", "403", "unauthorized", "invalid_argument", "no image bytes"}

\* any(keyword in error_message for keyword in [...])
MatchesUnavailable(message) == message \in UnavailableKeywords

\* messages of the exceptions the image backends raise
BackendErrorMessages == {"allowlist", "403", "quota exceeded"}

Bump(site) == [calls EXCEPT ![site] = @ + 1]

TextResult(fields) == [kind |-> "text", fields |-> fields]

\* the dict _execute_image_generation returns
DalleImageResult ==
    [kind |-> "image", fields |-> {"uploaded", "revised_prompt", "original_prompt", "filename"}]

\* the dict _execute_gemini_image_generation returns after its own upload
GeminiImageResult ==
    [kind |-> "image", fields |-> {"uploaded", "prompt", "filename", "model"}]

\* a chain whose else branch answers with a text generation
DispatchTargetDefaultsToText(type) ==
    CASE type = "image_generation" -> "img_prompt"
      [] type = "thread_summary" -> "summary_thread"
      [] type = "gemini_image_generation" -> "gemini_call"
      [] type = "image_analysis" -> "analysis_image"
      [] type = "gemini_video_generation" -> "video_call"
      [] OTHER -> "text_call"

\* the if / elif chain of execute_single_task
DispatchTarget(type) ==
    CASE type = "text_generation" -> "text_call"
      [] type = "image_generation" -> "img_prompt"
      [] type = "image_analysis" -> "analysis_image"
      [] type = "thread_summary" -> "summary_thread"
      [] type = "gemini_image_generation" -> "gemini_call"
      [] type = "gemini_video_generation" -> "video_call"
      [] OTHER -> "raised"

\* str(e) of ValueError(f"... {task_type}"): the message is modelled by the
\* task type it names
UnsupportedTypeMessage(type) == type

\* execute_single_task: dispatch on task['type'], ValueError for an unknown type
Dispatch ==
    /\ executor_pc = "start"
    /\ executor_pc' = DispatchTarget(single_task.type)
    /\ task_raised' = IF DispatchTarget(single_task.type) = "raised"
                      THEN [at |-> "dispatch",
                            message |-> UnsupportedTypeMessage(single_task.type)]
                      ELSE task_raised
    /\ UNCHANGED <<single_task, slack_thread_ts, thread_reply, thread_messages, calls,
                   gemini_error, image_error, dalle_error, fallback_active, attempt,
                   file_data, task_result>>
    /\ UNCHANGED <<sched_vars, exec_vars, intent_vars, lambda_vars, request_vars,
                   slack_vars>>

\* _execute_text_generation: one chat completion; its except raises again
TextGeneration ==
    /\ executor_pc = "text_call"
    /\ calls' = Bump("text")
    /\ \/ /\ task_result' = TextResult({"content", "model"})
          /\ executor_pc' = "returned"
          /\ UNCHANGED task_raised
       \/ /\ \E m \in BackendErrorMessages :
                task_raised' = [at |-> "text", message |-> m]
          /\ executor_pc' = "raised"
          /\ UNCHANGED task_result
    /\ UNCHANGED <<single_task, slack_thread_ts, thread_reply, thread_messages,
                   gemini_error, image_error, dalle_error, fallback_active, attempt,
                   file_data>>
    /\ UNCHANGED <<sched_vars, exec_vars, intent_vars, lambda_vars, request_vars,
                   slack_vars>>

\* _execute_image_generation, lines 123-139: a Korean input is first
\* translated by one chat completion
ImagePrompt ==
    /\ executor_pc = "img_prompt"
    /\ IF single_task.korean
       THEN /\ calls' = Bump("text")
            /\ \/ /\ executor_pc' = "img_generate"
                  /\ UNCHANGED image_error
               \/ /\ \E m \in BackendErrorMessages :
                        image_error' = [at |-> "translate", message |-> m]
                  /\ executor_pc' = "img_except"
       ELSE /\ executor_pc' = "img_generate"
            /\ UNCHANGED <<calls, image_error>>
    /\ UNCHANGED <<single_task, slack_thread_ts, thread_reply, thread_messages,
                   gemini_error, dalle_error, fallback_active, attempt, file_data,
                   task_result, task_raised>>
    /\ UNCHANGED <<sched_vars, exec_vars, intent_vars, lambda_vars, request_vars,
                   slack_vars>>

\* openai_api.generate_image(english_prompt)
ImageGenerate ==
    /\ executor_pc = "img_generate"
    /\ calls' = Bump("dalle")
    /\ \/ /\ executor_pc' = "img_download"
          /\ UNCHANGED image_error
       \/ /\ \E m \in BackendErrorMessages :
                image_error' = [at |-> "generate", message |-> m]
          /\ executor_pc' = "img_except"
    /\ UNCHANGED <<single_task, slack_thread_ts, thread_reply, thread_messages,
                   gemini_error, dalle_error, fallback_active, attempt, file_data,
                   task_result, task_raised>>
    /\ UNCHANGED <<sched_vars, exec_vars, intent_vars, lambda_vars, request_vars,
                   slack_vars>>

\* what one requests.get(image_url) gives: status 200 with content, status
\* 200 with empty content, or a failure (another status, an exception)
DownloadOutcomes == {"bytes", "empty", "failure"}

\* a loop body that sleeps and goes on after every failed attempt
DownloadStepRetriesOn(outcome, n) ==
    IF outcome # "failure" THEN "break" ELSE "retry"

\* the body of the loop, lines 159-175: what attempt n does with the outcome
\* of requests.get
DownloadStep(outcome, n) ==
    IF outcome # "failure" THEN "break"
    ELSE IF n = MaxRetries - 1 THEN "raise"
    ELSE "retry"

\* one pass of "for attempt in range(max_retries)"; a range that is used up
\* leaves the loop for the test of file_data
ImageDownload ==
    /\ executor_pc = "img_download"
    /\ attempt < MaxRetries
    /\ calls' = Bump("download")
    /\ \E outcome \in DownloadOutcomes :
          CASE DownloadStep(outcome, attempt) = "break" ->
                 /\ file_data' = outcome
                 /\ executor_pc' = "img_upload"
                 /\ UNCHANGED <<attempt, image_error>>
            [] DownloadStep(outcome, attempt) = "raise" ->
                 /\ image_error' = [at |-> "download", message |-> "download failed"]
                 /\ executor_pc' = "img_except"
                 /\ UNCHANGED <<attempt, file_data>>
            [] DownloadStep(outcome, attempt) = "retry" ->
                 /\ attempt' = attempt + 1                   \* time.sleep(2 ** attempt)
                 /\ executor_pc' = IF attempt + 1 < MaxRetries THEN "img_download"
                                                              ELSE "img_upload"
                 /\ UNCHANGED <<file_data, image_error>>
    /\ UNCHANGED <<single_task, slack_thread_ts, thread_reply, thread_messages,
                   gemini_error, dalle_error, fallback_active, task_result, task_raised>>
    /\ UNCHANGED <<sched_vars, exec_vars, intent_vars, lambda_vars, request_vars,
                   slack_vars>>

\* lines 178-204: "if not file_data: raise", then slack_api.upload_file and
\* the returned dict
ImageUpload ==
    /\ executor_pc = "img_upload"
    /\ IF file_data # "bytes"
       THEN /\ image_error' = [at |-> "download", message |-> "no data"]
            /\ executor_pc' = "img_except"
            /\ UNCHANGED <<calls, task_result>>
       ELSE /\ calls' = Bump("upload")
            /\ \/ /\ task_result' = DalleImageResult
                  /\ executor_pc' = IF fallback_active THEN "fallback_return"
                                                       ELSE "returned"
                  /\ UNCHANGED image_error
               \/ /\ image_error' = [at |-> "upload", message |-> "file upload error"]
                  /\ executor_pc' = "img_except"
                  /\ UNCHANGED task_result
    /\ UNCHANGED <<single_task, slack_thread_ts, thread_reply, thread_messages,
                   gemini_error, dalle_error, fallback_active, attempt, file_data,
                   task_raised>>
    /\ UNCHANGED <<sched_vars, exec_vars, intent_vars, lambda_vars, request_vars,
                   slack_vars>>

\* lines 206-208: "except Exception as e: ... raise e"; the exception leaves
\* execute_single_task, or reaches the Gemini handler that made the call
ImageExcept ==
    /\ executor_pc = "img_except"
    /\ IF fallback_active
       THEN /\ dalle_error' = image_error
            /\ executor_pc' = "fallback_except"
            /\ UNCHANGED task_raised
       ELSE /\ task_raised' = image_error
            /\ executor_pc' = "raised"
            /\ UNCHANGED dalle_error
    /\ UNCHANGED <<single_task, slack_thread_ts, thread_reply, thread_messages, calls,
                   gemini_error, image_error, fallback_active, attempt, file_data,
                   task_result>>
    /\ UNCHANGED <<sched_vars, exec_vars, intent_vars, lambda_vars, request_vars,
                   slack_vars>>

\* what gemini_api.generate_image gives: an exception, or a response with no
\* image, with an image that has no image_bytes, or with image bytes
GeminiOutcomes ==
    {[raised |-> m, image |-> NoValue] : m \in BackendErrorMessages}
    \cup {[raised |-> NoValue, image |-> i] : i \in {"no image", "no bytes", "bytes"}}

\* lines 423-470 and 504-525: the call and the tests on its response
GeminiGenerate ==
    /\ executor_pc = "gemini_call"
    /\ calls' = Bump("gemini")
    /\ \E outcome \in GeminiOutcomes :
          IF outcome.raised # NoValue
          THEN /\ gemini_error' = [at |-> "generate", message |-> outcome.raised]
               /\ executor_pc' = "gemini_except"
          ELSE IF outcome.image = "no image"
          THEN /\ gemini_error' = [at |-> "response", message |-> "no generated image"]
               /\ executor_pc' = "gemini_except"
          ELSE IF outcome.image = "no bytes"
          THEN /\ gemini_error' = [at |-> "response", message |-> "no image bytes"]
               /\ executor_pc' = "gemini_except"
          ELSE /\ executor_pc' = "gemini_upload"
               /\ UNCHANGED gemini_error
    /\ UNCHANGED <<single_task, slack_thread_ts, thread_reply, thread_messages,
                   image_error, dalle_error, fallback_active, attempt, file_data,
                   task_result, task_raised>>
    /\ UNCHANGED <<sched_vars, exec_vars, intent_vars, lambda_vars, request_vars,
                   slack_vars>>

\* lines 472-503 and 511-515: the upload of the Gemini image
GeminiUpload ==
    /\ executor_pc = "gemini_upload"
    /\ calls' = Bump("upload")
    /\ \/ /\ task_result' = GeminiImageResult
          /\ executor_pc' = "returned"
          /\ UNCHANGED gemini_error
       \/ /\ gemini_error' = [at |-> "upload", message |-> "file upload error"]
          /\ executor_pc' = "gemini_except"
          /\ UNCHANGED task_result
    /\ UNCHANGED <<single_task, slack_thread_ts, thread_reply, thread_messages,
                   image_error, dalle_error, fallback_active, attempt, file_data,
                   task_raised>>
    /\ UNCHANGED <<sched_vars, exec_vars, intent_vars, lambda_vars, request_vars,
                   slack_vars>>

\* a handler that raises the feature-unavailable errors again
GeminiExceptBranchReraise(message) ==
    IF MatchesUnavailable(message) THEN "raise" ELSE "fallback"

\* lines 536-569: what the handler does for the caught message; the
\* keyword branch and the else branch both call _execute_image_generation
GeminiExceptBranch(message) ==
    IF MatchesUnavailable(message) THEN "fallback" ELSE "fallback"

\* "except Exception as e" of _execute_gemini_image_generation, up to the call
\* of the DALL-E path
GeminiExcept ==
    /\ executor_pc = "gemini_except"
    /\ IF GeminiExceptBranch(gemini_error.message) = "fallback"
       THEN /\ calls' = Bump("dalle_path")
            /\ fallback_active' = TRUE
            /\ executor_pc' = "img_prompt"
            /\ UNCHANGED task_raised
       ELSE /\ task_raised' = gemini_error
            /\ executor_pc' = "raised"
            /\ UNCHANGED <<calls, fallback_active>>
    /\ UNCHANGED <<single_task, slack_thread_ts, thread_reply, thread_messages,
                   gemini_error, image_error, dalle_error, attempt, file_data,
                   task_result>>
    /\ UNCHANGED <<sched_vars, exec_vars, intent_vars, lambda_vars, request_vars,
                   slack_vars>>

\* "return self._execute_image_generation(task)": the DALL-E result is returned
FallbackReturn ==
    /\ executor_pc = "fallback_return"
    /\ executor_pc' = "returned"
    /\ UNCHANGED <<single_task, slack_thread_ts, thread_reply, thread_messages, calls,
                   gemini_error, image_error, dalle_error, fallback_active, attempt,
                   file_data, task_result, task_raised>>
    /\ UNCHANGED <<sched_vars, exec_vars, intent_vars, lambda_vars, request_vars,
                   slack_vars>>

\* "except Exception as dalle_error": a text result names both errors
FallbackExcept ==
    /\ executor_pc = "fallback_except"
    /\ task_result' = TextResult({"content", "model"})
    /\ executor_pc' = "returned"
    /\ UNCHANGED <<single_task, slack_thread_ts, thread_reply, thread_messages, calls,
                   gemini_error, image_error, dalle_error, fallback_active, attempt,
                   file_data, task_raised>>
    /\ UNCHANGED <<sched_vars, exec_vars, intent_vars, lambda_vars, request_vars,
                   slack_vars>>

\* a test that takes every fetched list for a non-empty one
NoThreadMessagesNever(messages) == FALSE

\* "if not thread_messages or len(thread_messages) == 0"
NoThreadMessages(messages) == messages = "empty"

\* what app.client.conversations_replies does: an ok response with replies,
\* an ok response with the parent message only, a response that is not ok,
\* or the SlackApiError of slack_sdk
ThreadReplies == {"replies", "parent only", "not ok", "SlackApiError"}

\* the exception class the platform client raises
SdkSlackApiError == "slack_sdk.errors.SlackApiError"

\* the class the name SlackApiError is bound to in slack_api.py: line 19
\* defines a class of this name after line 11 imported the one of slack_sdk
ModuleSlackApiError == "src.api.slack_api.SlackApiError"

\* "except SlackApiError as e" in slack_api.py; neither class derives from
\* the other
SlackApiErrorCatches(exc) == exc = ModuleSlackApiError

\* slack_api.get_thread_messages: the list it returns ("empty" for [],
\* "messages" for a non-empty list) or the exception that leaves it
GetThreadMessages(reply) ==
    CASE reply = "not ok" -> [raised |-> NoValue, messages |-> "empty"]
      [] reply = "parent only" -> [raised |-> NoValue, messages |-> "empty"]
      [] reply = "replies" -> [raised |-> NoValue, messages |-> "messages"]
      [] reply = "SlackApiError" ->
             IF SlackApiErrorCatches(SdkSlackApiError)
             THEN [raised |-> NoValue, messages |-> "empty"]
             ELSE [raised |-> SdkSlackApiError, messages |-> "unfetched"]

\* _execute_thread_summary, lines 279-301: without a thread, or with a thread
\* whose fetched list is empty, a fixed text is returned; an exception of
\* get_thread_messages is raised again by "except Exception"
SummaryThread ==
    /\ executor_pc = "summary_thread"
    /\ IF slack_thread_ts = NoValue
       THEN /\ task_result' = TextResult({"content"})
            /\ executor_pc' = "returned"
            /\ UNCHANGED <<calls, thread_reply, thread_messages, task_raised>>
       ELSE /\ calls' = Bump("thread_fetch")
            /\ thread_reply' \in ThreadReplies
            /\ thread_messages' = GetThreadMessages(thread_reply').messages
            /\ IF GetThreadMessages(thread_reply').raised # NoValue
               THEN /\ task_raised' = [at |-> "thread_fetch",
                                       message |-> GetThreadMessages(thread_reply').raised]
                    /\ executor_pc' = "raised"
                    /\ UNCHANGED task_result
               ELSE IF NoThreadMessages(thread_messages')
               THEN /\ task_result' = TextResult({"content"})
                    /\ executor_pc' = "returned"
                    /\ UNCHANGED task_raised
               ELSE /\ executor_pc' = "summary_call"
                    /\ UNCHANGED <<task_result, task_raised>>
    /\ UNCHANGED <<single_task, slack_thread_ts, gemini_error, image_error,
                   dalle_error, fallback_active, attempt, file_data>>
    /\ UNCHANGED <<sched_vars, exec_vars, intent_vars, lambda_vars, request_vars,
                   slack_vars>>

\* _execute_thread_summary, lines 303-345: one chat completion over the
\* formatted thread; its except raises again
SummaryCall ==
    /\ executor_pc = "summary_call"
    /\ calls' = Bump("text")
    /\ \/ /\ task_result' = TextResult({"content", "message_count"})
          /\ executor_pc' = "returned"
          /\ UNCHANGED task_raised
       \/ /\ \E m \in BackendErrorMessages :
                task_raised' = [at |-> "text", message |-> m]
          /\ executor_pc' = "raised"
          /\ UNCHANGED task_result
    /\ UNCHANGED <<single_task, slack_thread_ts, thread_reply, thread_messages,
                   gemini_error, image_error, dalle_error, fallback_active, attempt,
                   file_data>>
    /\ UNCHANGED <<sched_vars, exec_vars, intent_vars, lambda_vars, request_vars,
                   slack_vars>>

\* an analysis handed back as a plain text result
AnalysisResultAsText == [kind |-> "text", fields |-> {"content", "analyzed_image"}]

\* the dict _execute_image_analysis returns
AnalysisResult == [kind |-> "analysis", fields |-> {"content", "analyzed_image"}]

\* _execute_image_analysis, lines 213-226: no image raises the ValueError; an
\* image that comes as a url is fetched and encoded by
\* get_encoded_image_from_slack, which returns None when the fetch fails
AnalysisImage ==
    /\ executor_pc = "analysis_image"
    /\ CASE single_task.uploaded_image = NoValue ->
               /\ task_raised' = [at |-> "analysis_input", message |-> "no image"]
               /\ executor_pc' = "raised"
               /\ UNCHANGED calls
         [] single_task.uploaded_image = "base64" ->
               /\ executor_pc' = "analysis_call"
               /\ UNCHANGED <<calls, task_raised>>
         [] single_task.uploaded_image = "url" ->
               /\ calls' = Bump("encode")
               /\ \/ /\ executor_pc' = "analysis_call"
                     /\ UNCHANGED task_raised
                  \/ /\ task_raised' = [at |-> "encode", message |-> "encoding failed"]
                     /\ executor_pc' = "raised"
    /\ UNCHANGED <<single_task, slack_thread_ts, thread_reply, thread_messages,
                   gemini_error, image_error, dalle_error, fallback_active, attempt,
                   file_data, task_result>>
    /\ UNCHANGED <<sched_vars, exec_vars, intent_vars, lambda_vars, request_vars,
                   slack_vars>>

\* _execute_image_analysis, lines 228-265: one chat completion with the image;
\* its except raises again
AnalysisCall ==
    /\ executor_pc = "analysis_call"
    /\ calls' = Bump("vision")
    /\ \/ /\ task_result' = AnalysisResult
          /\ executor_pc' = "returned"
          /\ UNCHANGED task_raised
       \/ /\ \E m \in BackendErrorMessages :
                task_raised' = [at |-> "vision", message |-> m]
          /\ executor_pc' = "raised"
          /\ UNCHANGED task_result
    /\ UNCHANGED <<single_task, slack_thread_ts, thread_reply, thread_messages,
                   gemini_error, image_error, dalle_error, fallback_active, attempt,
                   file_data>>
    /\ UNCHANGED <<sched_vars, exec_vars, intent_vars, lambda_vars, request_vars,
                   slack_vars>>

\* the keywords the video handler looks for in str(e).lower()
VideoUnavailableKeywords ==
    {"allowlist", "not enabled", "not supported", "403", "unauthorized", "invalid_argument"}

\* the dict the video handler returns: a text whose content says that the
\* capability is gated, or names the error, and in both cases suggests text
\* or image generation
VideoNotice(gated) ==
    [kind |-> "text", fields |-> {"content", "model"}, gated |-> gated,
     suggests_alternative |-> TRUE]

\* a handler that raises the errors without a keyword again
VideoExceptBranchReraise(message) ==
    IF message \in VideoUnavailableKeywords THEN "gated" ELSE "raise"

\* lines 633-657: the branch of the handler for the caught message
VideoExceptBranch(message) ==
    IF message \in VideoUnavailableKeywords THEN "gated" ELSE "error"

\* _execute_gemini_video_generation, lines 574-621: one call of
\* gemini_api.generate_video; the started operation is reported as a text
VideoGenerate ==
    /\ executor_pc = "video_call"
    /\ calls' = Bump("video")
    /\ \/ /\ task_result' = TextResult({"content", "model", "operation_info"})
          /\ executor_pc' = "returned"
          /\ UNCHANGED gemini_error
       \/ /\ \E m \in BackendErrorMessages :
                gemini_error' = [at |-> "video", message |-> m]
          /\ executor_pc' = "video_except"
          /\ UNCHANGED task_result
    /\ UNCHANGED <<single_task, slack_thread_ts, thread_reply, thread_messages,
                   image_error, dalle_error, fallback_active, attempt, file_data,
                   task_raised>>
    /\ UNCHANGED <<sched_vars, exec_vars, intent_vars, lambda_vars, request_vars,
                   slack_vars>>

\* "except Exception as e" of _execute_gemini_video_generation, lines 623-657
VideoExcept ==
    /\ executor_pc = "video_except"
    /\ IF VideoExceptBranch(gemini_error.message) = "raise"
       THEN /\ task_raised' = gemini_error
            /\ executor_pc' = "raised"
            /\ UNCHANGED task_result
       ELSE /\ task_result' = VideoNotice(VideoExceptBranch(gemini_error.message) = "gated")
            /\ executor_pc' = "returned"
            /\ UNCHANGED task_raised
    /\ UNCHANGED <<single_task, slack_thread_ts, thread_reply, thread_messages, calls,
                   gemini_error, image_error, dalle_error, fallback_active, attempt,
                   file_data>>
    /\ UNCHANGED <<sched_vars, exec_vars, intent_vars, lambda_vars, request_vars,
                   slack_vars>>

ExecutorInit ==
    /\ StreamIdle
    /\ UpdateIdle
    /\ RequestIdle
    /\ SchedIdle
    /\ ExecIdle
    /\ IntentIdle
    /\ LambdaIdle
    /\ single_task \in [type : ExecutorTaskTypes, korean : BOOLEAN,
                      uploaded_image : UploadedImages]
    /\ slack_thread_ts \in {NoValue, "1700000000.000100"}
    /\ thread_reply = NoValue
    /\ thread_messages = "unfetched"
    /\ calls = NoCalls
    /\ gemini_error = NoError
    /\ image_error = NoError
    /\ dalle_error = NoError
    /\ fallback_active = FALSE
    /\ attempt = 0
    /\ file_data = NoValue
    /\ task_result = NoResult
    /\ task_raised = NoError
    /\ executor_pc = "start"

ExecutorNext ==
    \/ Dispatch \/ TextGeneration
    \/ ImagePrompt \/ ImageGenerate \/ ImageDownload \/ ImageUpload \/ ImageExcept
    \/ GeminiGenerate \/ GeminiUpload \/ GeminiExcept \/ FallbackReturn \/ FallbackExcept
    \/ SummaryThread \/ SummaryCall
    \/ AnalysisImage \/ AnalysisCall \/ VideoGenerate \/ VideoExcept

SpecExecutor == ExecutorInit /\ [][ExecutorNext]_vars

(***************************************************************************)
(* Properties of the task executor.                                        *)
(***************************************************************************)
Finished == executor_pc \in {"returned", "raised"}

\* C11: for a Gemini image task whose primary backend fails with a
\* feature-unavailable message, the DALL-E path is entered exactly once and
\* openai generate_image is called at most once, whatever the DALL-E path
\* does; if the DALL-E path succeeds the result is its image result, and
\* nothing is raised.
FallbackOnceOnUnavailable ==
    ( /\ single_task.type = "gemini_image_generation"
      /\ gemini_error.at = "generate"
      /\ MatchesUnavailable(gemini_error.message) ) =>
        /\ calls.dalle_path <= 1
        /\ calls.dalle <= 1
        /\ calls.gemini = 1
        /\ executor_pc # "raised"
        /\ executor_pc # "gemini_except" => calls.dalle_path = 1
        /\ executor_pc = "returned" =>
              IF dalle_error = NoError
              THEN task_result = DalleImageResult /\ calls.dalle = 1 /\ calls.upload = 1
              ELSE task_result.kind = "text"

\* the fallback succeeded after an allowlist error of Gemini
FallbackOnceOnUnavailableWitness ==
    /\ executor_pc = "returned"
    /\ single_task.type = "gemini_image_generation"
    /\ gemini_error = [at |-> "generate", message |-> "allowlist"]
    /\ dalle_error = NoError
    /\ task_result.kind = "image"
    /\ calls.dalle_path = 1

\* the failure of an image backend call whose message has no
\* feature-unavailable keyword
OtherImageBackendFailure ==
    \/ /\ gemini_error.at = "generate"
       /\ ~MatchesUnavailable(gemini_error.message)
    \/ /\ image_error.at = "generate"
       /\ ~MatchesUnavailable(image_error.message)

\* C12: for an image_generation or gemini_image_generation task, an image
\* backend failure without a feature-unavailable keyword makes
\* execute_single_task return a text result; nothing is raised.
ImageFailureGivesText ==
    ( /\ single_task.type \in {"image_generation", "gemini_image_generation"}
      /\ OtherImageBackendFailure
      /\ Finished ) =>
        /\ executor_pc = "returned"
        /\ task_result.kind = "text"

ZeroContext ==
    \/ slack_thread_ts = NoValue
    \/ thread_messages = "empty"

\* C13: a thread_summary task with zero context messages (no thread, or a
\* fetched thread that is empty) never calls a generative backend and
\* returns a text result.
SummaryWithoutContext ==
    (single_task.type = "thread_summary" /\ ZeroContext) =>
        /\ calls.text = 0 /\ calls.dalle = 0 /\ calls.gemini = 0
        /\ executor_pc \notin {"summary_call", "raised"}
        /\ executor_pc \notin {"start", "summary_thread"} =>
              executor_pc = "returned" /\ task_result.kind = "text"

\* a thread whose fetched message list is empty got the fixed text
SummaryWithoutContextWitness ==
    /\ single_task.type = "thread_summary"
    /\ slack_thread_ts # NoValue
    /\ thread_messages = "empty"
    /\ calls.thread_fetch = 1
    /\ executor_pc = "returned"
    /\ task_result.kind = "text"

\* the fetch of the thread failed: the platform call raised its SlackApiError
\* or returned a response that is not ok
ThreadFetchFailed == thread_reply \in {"not ok", "SlackApiError"}

\* C24: whenever fetching the thread fails, by a Slack API error raised by the
\* platform call or by a not-ok response, get_thread_messages returns an
\* empty list and does not raise.
ThreadFetchDegradesToEmpty ==
    ThreadFetchFailed =>
        /\ GetThreadMessages(thread_reply) = [raised |-> NoValue, messages |-> "empty"]
        /\ thread_messages = "empty"
        /\ task_raised.at # "thread_fetch"

\* C31 as stated: an image_analysis task without an image fails without a
\* multimodal call; with an image, execute_single_task ends after exactly
\* one multimodal call with a result of kind analysis.
AnalysisWithImageAlwaysAnswers ==
    (single_task.type = "image_analysis" /\ Finished) =>
        IF single_task.uploaded_image = NoValue
        THEN executor_pc = "raised" /\ calls.vision = 0
        ELSE /\ calls.vision = 1
             /\ executor_pc = "returned"
             /\ task_result.kind = "analysis"

\* C31: an image_analysis task makes no backend call but the multimodal one,
\* and that one at most once.  Without an image it raises before any call.
\* With an image it makes exactly one multimodal call, unless the image came
\* as a url that could not be fetched and encoded (then it raises with no
\* call); the result is of kind analysis when the call returns, and the task
\* raises when the call fails.
AnalysisSingleCall ==
    single_task.type = "image_analysis" =>
        /\ calls.vision <= 1
        /\ calls.text = 0 /\ calls.dalle = 0 /\ calls.gemini = 0 /\ calls.video = 0
        /\ single_task.uploaded_image = NoValue =>
              /\ calls.vision = 0 /\ calls.encode = 0
              /\ executor_pc \in {"start", "analysis_image", "raised"}
        /\ single_task.uploaded_image = "base64" => calls.encode = 0
        /\ (Finished /\ single_task.uploaded_image # NoValue) =>
              calls.vision = (IF task_raised.at = "encode" THEN 0 ELSE 1)
        /\ executor_pc = "returned" =>
              /\ task_result.kind = "analysis"
              /\ calls.vision = 1
        /\ executor_pc = "raised" =>
              task_raised.at \in {"analysis_input", "encode", "vision"}

\* an image that came as a url was encoded and analysed with one call
AnalysisSingleCallWitness ==
    /\ single_task.type = "image_analysis"
    /\ single_task.uploaded_image = "url"
    /\ executor_pc = "returned"
    /\ calls.encode = 1
    /\ calls.vision = 1
    /\ task_result = AnalysisResult

\* C32: in _execute_image_generation the download is attempted at most
\* MaxRetries times and no more after the first attempt that returned status
\* 200; the upload is called only with downloaded bytes; after MaxRetries
\* failed attempts the function raises and no upload was made.
DownloadBoundedBeforeUpload ==
    single_task.type = "image_generation" =>
        /\ calls.download <= MaxRetries
        /\ attempt < MaxRetries
        /\ file_data # NoValue =>
              /\ calls.download = attempt + 1
              /\ executor_pc # "img_download"
        /\ calls.upload <= 1
        /\ (calls.upload = 1 \/ executor_pc = "img_upload") => file_data # NoValue
        /\ calls.upload = 1 => file_data = "bytes"
        /\ (calls.download = MaxRetries /\ file_data = NoValue) =>
              /\ executor_pc \in {"img_except", "raised"}
              /\ image_error.at = "download"
              /\ calls.upload = 0
              /\ task_result = NoResult

\* the third attempt failed too and the task has raised
DownloadBoundedBeforeUploadWitness ==
    /\ single_task.type = "image_generation"
    /\ calls.download = MaxRetries
    /\ file_data = NoValue
    /\ executor_pc = "raised"
    /\ task_raised.at = "download"
    /\ calls.upload = 0

\* the feature-unavailable failures the video handler is to explain
GatedVideoFailures == {"allowlist", "not enabled", "not supported", "403"}

\* C34: a gemini_video_generation task whose backend call fails does not
\* raise out of execute_single_task: it returns a text result that suggests
\* text or image generation, and for a feature-unavailable failure the text
\* says that the capability is gated.
VideoFailureGivesText ==
    (single_task.type = "gemini_video_generation" /\ gemini_error.at = "video") =>
        /\ executor_pc \in {"video_except", "returned"}
        /\ task_raised = NoError
        /\ calls.video = 1
        /\ executor_pc = "returned" =>
              /\ task_result.kind = "text"
              /\ task_result.suggests_alternative
              /\ gemini_error.message \in GatedVideoFailures => task_result.gated

\* both kinds of failure were answered with a text: a gated one and another
VideoFailureGivesTextWitness ==
    /\ single_task.type = "gemini_video_generation"
    /\ executor_pc = "returned"
    /\ gemini_error.at = "video"
    /\ task_result.kind = "text"
    /\ \/ gemini_error.message = "allowlist" /\ task_result.gated
       \/ gemini_error.message = "quota exceeded" /\ ~task_result.gated


(***************************************************************************)
(* execute_tasks calling execute_single_task                               *)
(***************************************************************************)
MaxLoopTasks == 2

\* the scheduled lists of at most MaxLoopTasks tasks
LoopTaskLists ==
    {TaskListOf(infos) :
        infos \in UNION {{l \in [1..n -> ExecTaskInfos] : FirstUseOrder(l)} :
                            n \in 0..MaxLoopTasks}}

\* the class of the exception that left execute_single_task: the ValueError
\* of the dispatch, or an error of a backend or of the chat platform
RaisedClass(raised) == IF raised.at = "dispatch" THEN "ValueError" ELSE "Exception"

\* result = self.task_executor.execute_single_task(task): the call
LoopCall ==
    /\ exec_pc = "call"
    /\ attempts' = [attempts EXCEPT ![task_index] = @ + 1]
    /\ single_task' \in [type : {task_list[task_index].type}, korean : BOOLEAN,
                       uploaded_image : UploadedImages]
    /\ slack_thread_ts' = NoValue
    /\ thread_reply' = NoValue
    /\ thread_messages' = "unfetched"
    /\ calls' = NoCalls
    /\ gemini_error' = NoError
    /\ image_error' = NoError
    /\ dalle_error' = NoError
    /\ fallback_active' = FALSE
    /\ attempt' = 0
    /\ file_data' = NoValue
    /\ task_result' = NoResult
    /\ task_raised' = NoError
    /\ executor_pc' = "start"
    /\ exec_pc' = "in_call"
    /\ UNCHANGED <<task_list, task_index, results, progress_count, pending_result,
                   pending_error>>
    /\ UNCHANGED <<sched_vars, intent_vars, lambda_vars, request_vars,
                   slack_vars>>

\* execute_single_task returns its result, or its exception reaches the
\* except block of execute_tasks
LoopReturn ==
    /\ exec_pc = "in_call"
    /\ Finished
    /\ IF executor_pc = "returned"
       THEN /\ pending_result' = task_result.kind
            /\ exec_pc' = "store"
            /\ UNCHANGED pending_error
       ELSE /\ pending_error' = RaisedClass(task_raised)
            /\ exec_pc' = "except"
            /\ UNCHANGED pending_result
    /\ executor_pc' = "idle"
    /\ UNCHANGED <<task_list, task_index, results, attempts, progress_count>>
    /\ UNCHANGED <<single_task, slack_thread_ts, thread_reply, thread_messages, calls,
                   gemini_error, image_error, dalle_error, fallback_active, attempt,
                   file_data, task_result, task_raised>>
    /\ UNCHANGED <<sched_vars, intent_vars, lambda_vars, request_vars,
                   slack_vars>>

LoopInit ==
    /\ StreamIdle
    /\ UpdateIdle
    /\ ExecutorIdle
    /\ RequestIdle
    /\ SchedIdle
    /\ IntentIdle
    /\ LambdaIdle
    /\ task_list \in LoopTaskLists
    /\ task_index = 1
    /\ results = <<>>
    /\ attempts = [k \in 1..Len(task_list) |-> 0]
    /\ progress_count = 0
    /\ pending_result = NoValue
    /\ pending_error = NoValue
    /\ exec_pc = "loop"

LoopStep ==
    \/ LoopNext \/ UpdateProgress \/ StartTask \/ LoopCall \/ LoopReturn
    \/ CompleteTask \/ FailTask
    \/ Dispatch \/ TextGeneration
    \/ ImagePrompt \/ ImageGenerate \/ ImageDownload \/ ImageUpload \/ ImageExcept

SpecLoop == LoopInit /\ [][LoopStep]_vars

(***************************************************************************)
(* WorkflowEngine.process_user_request                                     *)
(***************************************************************************)
MaxRequestTasks == 2

\* task types of the tasks of a request
RequestTaskTypes == {"text_generation", "image_generation"}

\* the scheduled task lists a request may resolve to
RequestTaskLists == UNION {[1..n -> RequestTaskTypes] : n \in 0..MaxRequestTasks}

\* ts of the message the initial say() posts, and of the message the
\* fallback handler posts
InitialTs == "ts1"
CursorTs == "ts2"

\* a call of the response sink: op is "post" (say), "update" (update_message)
\* or "upload" (upload_file); by is the stage that made it; ts is the message
\* an update targets or a successful post created; index and total are the
\* i/n a progress text shows
Call(op, by, text, ts, index, total) ==
    [op |-> op, by |-> by, text |-> text, ts |-> ts, index |-> index, total |-> total]

\* a call without target and counter
Sent(op, by, text) == Call(op, by, text, NoValue, 0, 0)

\* slack_api.update_message(self.app, channel, message_ts, text) of the engine
StatusUpdate(message_ts, text, index, total) ==
    Call("update", "workflow", text, message_ts, index, total)

\* the log after a call of the response sink that may fail
SinkCall(log, ok, entry) == IF ok THEN Append(log, entry) ELSE log

\* complete runs of execute_single_task for a task of the given type: the
\* result or the exception, and the uploads made on the way
ExecutorRuns(type) ==
    CASE type = "text_generation" ->
             {[raised |-> NoValue, result |-> TextResult({"content", "model"}), uploads |-> 0],
              [raised |-> "OpenAIApiError", result |-> NoResult, uploads |-> 0]}
      [] type = "image_generation" ->
             {[raised |-> NoValue, result |-> DalleImageResult, uploads |-> 1],
              [raised |-> "OpenAIApiError", result |-> NoResult, uploads |-> 0],
              [raised |-> "SlackApiError", result |-> NoResult, uploads |-> 0]}
      [] OTHER ->
             {[raised |-> "ValueError", result |-> NoResult, uploads |-> 0]}

\* say(text="... analyzing ...") and latest_ts = result["ts"]
RequestSay ==
    /\ request_pc = "start"
    /\ sink_calls' = Append(sink_calls, Sent("post", "workflow", "analyzing"))
    /\ \E ok \in BOOLEAN :
          IF ok
          THEN /\ sink_log' = Append(sink_log,
                                     Call("post", "workflow", "analyzing", InitialTs, 0, 0))
               /\ latest_ts' = InitialTs
               /\ request_pc' = "analyze"
               /\ UNCHANGED workflow_error
          ELSE /\ workflow_error' = "SlackApiError"
               /\ request_pc' = "error"
               /\ UNCHANGED <<sink_log, latest_ts>>
    /\ UNCHANGED <<request_message, request_image, request_tasks, request_index,
                   aggregated_results>>
    /\ UNCHANGED <<sched_vars, exec_vars, intent_vars, lambda_vars, executor_vars,
                   slack_vars>>

\* analyze_user_intent, create_task_list and the update_progress that names
\* the number of tasks (a failed update is logged and dropped)
RequestPlan ==
    /\ request_pc = "analyze"
    /\ \E types \in RequestTaskLists :
          /\ request_tasks' = [k \in 1..Len(types) |->
                                  [type |-> types[k], status |-> "pending",
                                   result |-> NoResult, error |-> NoValue]]
          /\ LET update == StatusUpdate(latest_ts, "task count", 0, Len(types))
             IN  /\ sink_calls' = Append(sink_calls, update)
                 /\ \E ok \in BOOLEAN : sink_log' = SinkCall(sink_log, ok, update)
    /\ request_index' = 1
    /\ request_pc' = "execute"
    /\ UNCHANGED <<request_message, request_image, latest_ts, aggregated_results,
                   workflow_error>>
    /\ UNCHANGED <<sched_vars, exec_vars, intent_vars, lambda_vars, executor_vars,
                   slack_vars>>

RECURSIVE Uploads(_, _)
\* n uploads made by the given stage
Uploads(n, by) ==
    IF n = 0 THEN <<>> ELSE <<Sent("upload", by, "image")>> \o Uploads(n - 1, by)

\* execute_tasks, lines 274-275: update_progress(progress_ts, "i+1/len ...")
\* for the next task of the loop (a failed update is logged and dropped)
RequestProgress ==
    /\ request_pc = "execute"
    /\ request_index <= Len(request_tasks)
    /\ LET update == StatusUpdate(latest_ts, "progress", request_index, Len(request_tasks))
       IN  /\ sink_calls' = Append(sink_calls, update)
           /\ \E ok \in BOOLEAN : sink_log' = SinkCall(sink_log, ok, update)
    /\ request_pc' = "start_task"
    /\ UNCHANGED <<request_message, request_image, latest_ts, request_tasks,
                   request_index, aggregated_results, workflow_error>>
    /\ UNCHANGED <<sched_vars, exec_vars, intent_vars, lambda_vars, executor_vars,
                   slack_vars>>

\* execute_tasks, line 278: task['status'] = 'running'
RequestStartTask ==
    /\ request_pc = "start_task"
    /\ request_tasks' = [request_tasks EXCEPT ![request_index].status = "running"]
    /\ request_pc' = "run_task"
    /\ UNCHANGED <<request_message, request_image, sink_log, sink_calls, latest_ts,
                   request_index, aggregated_results, workflow_error>>
    /\ UNCHANGED <<sched_vars, exec_vars, intent_vars, lambda_vars, executor_vars,
                   slack_vars>>

\* execute_tasks, lines 281-298: the task runs and gets its status
RequestExecuteTask ==
    /\ request_pc = "run_task"
    /\ \E run \in ExecutorRuns(request_tasks[request_index].type) :
          /\ sink_log' = sink_log \o Uploads(run.uploads, "executor")
          /\ request_tasks' =
                [request_tasks EXCEPT ![request_index] =
                    IF run.raised = NoValue
                    THEN [@ EXCEPT !.status = "completed", !.result = run.result]
                    ELSE [@ EXCEPT !.status = "failed", !.error = run.raised]]
    /\ request_index' = request_index + 1
    /\ request_pc' = "execute"
    /\ UNCHANGED <<request_message, request_image, sink_calls, latest_ts,
                   aggregated_results, workflow_error>>
    /\ UNCHANGED <<sched_vars, exec_vars, intent_vars, lambda_vars, executor_vars,
                   slack_vars>>

\* the keys aggregate_results reads from a result of the given kind
FieldsRead(kind) ==
    CASE kind = "text" -> {"content"}
      [] kind = "image" -> {"image_data", "revised_prompt"}
      [] kind = "analysis" -> {"content"}
      [] OTHER -> {}

\* aggregate_results raises KeyError: a completed task's result lacks a key
\* the classification reads
AggregateRaises(task_seq) ==
    \E k \in 1..Len(task_seq) :
        /\ task_seq[k].status = "completed"
        /\ ~(FieldsRead(task_seq[k].result.kind) \subseteq task_seq[k].result.fields)

\* the positions of the tasks with the given status and a result of one of
\* the given kinds, in order
TasksWith(task_seq, status, kinds) ==
    SelectSeq([k \in 1..Len(task_seq) |-> k],
              LAMBDA k : /\ task_seq[k].status = status
                         /\ task_seq[k].result.kind \in kinds)

\* the lists aggregate_results builds; an entry names its task (which stands
\* for task['description']), an entry of errors also carries task['error']
Aggregate(task_seq) ==
    [text_content |-> [j \in DOMAIN TasksWith(task_seq, "completed", {"text"}) |->
                          [task |-> TasksWith(task_seq, "completed", {"text"})[j]]],
     images       |-> [j \in DOMAIN TasksWith(task_seq, "completed", {"image"}) |->
                          [task |-> TasksWith(task_seq, "completed", {"image"})[j]]],
     analyses     |-> [j \in DOMAIN TasksWith(task_seq, "completed", {"analysis"}) |->
                          [task |-> TasksWith(task_seq, "completed", {"analysis"})[j]]],
     errors       |-> [j \in DOMAIN TasksWith(task_seq, "failed", {NoValue}) |->
                          [task  |-> TasksWith(task_seq, "failed", {NoValue})[j],
                           error |-> task_seq[TasksWith(task_seq, "failed", {NoValue})[j]].error]]]

\* aggregate_results, after the loop of execute_tasks has ended
RequestAggregate ==
    /\ request_pc = "execute"
    /\ request_index > Len(request_tasks)
    /\ IF AggregateRaises(request_tasks)
       THEN /\ workflow_error' = "KeyError"
            /\ request_pc' = "error"
            /\ UNCHANGED aggregated_results
       ELSE /\ aggregated_results' = Aggregate(request_tasks)
            /\ request_pc' = "send"
            /\ UNCHANGED workflow_error
    /\ UNCHANGED <<request_message, request_image, sink_log, sink_calls, latest_ts,
                   request_tasks, request_index>>
    /\ UNCHANGED <<sched_vars, exec_vars, intent_vars, lambda_vars, executor_vars,
                   slack_vars>>

\* send_final_response: the final text (from the backend, or the simple
\* summary when it fails) replaces the status message, then every aggregated
\* image is uploaded; a failed update_message raises, a failed upload is
\* logged and dropped
RequestSend ==
    /\ request_pc = "send"
    /\ LET update == StatusUpdate(latest_ts, "final", 0, 0)
       IN  /\ sink_calls' = Append(sink_calls, update)
           /\ \E ok \in BOOLEAN, uploaded \in 0..Len(aggregated_results.images) :
                 IF ok
                 THEN /\ sink_log' = Append(sink_log, update) \o Uploads(uploaded, "workflow")
                      /\ request_pc' = "done"
                      /\ UNCHANGED workflow_error
                 ELSE /\ workflow_error' = "SlackApiError"
                      /\ request_pc' = "error"
                      /\ UNCHANGED sink_log
    /\ UNCHANGED <<request_message, request_image, latest_ts, request_tasks,
                   request_index, aggregated_results>>
    /\ UNCHANGED <<sched_vars, exec_vars, intent_vars, lambda_vars, executor_vars,
                   slack_vars>>

\* handle_workflow_error: the handler of MessageHandler the keyword test selects
FallbackHandler(message, has_image) ==
    IF has_image THEN "conversation"
    ELSE IF HasImageKeyword(message) THEN "image_generate"
    ELSE "conversation"

\* say(text=settings.BOT_CURSOR, thread_ts=thread_ts) of the fallback handler
CursorPost == Call("post", "fallback", "cursor", CursorTs, 0, 0)

\* what a run of MessageHandler.conversation / image_generate sends when it
\* returns: the cursor message, status updates of that message, and the
\* answer, or the uploaded image with the revised prompt written into the
\* message, or an error text (chat_update drops its own failures)
FallbackRuns(handler) ==
    LET cursor == CursorPost
        status == Call("update", "fallback", "status", CursorTs, 0, 0)
    IN  IF handler = "image_generate"
        THEN { <<cursor, status, Sent("upload", "fallback", "image"),
                 Call("update", "fallback", "revised prompt", CursorTs, 0, 0)>>,
               <<cursor, status, Sent("upload", "fallback", "image")>>,
               <<cursor, status, Call("update", "fallback", "error", CursorTs, 0, 0)>>,
               <<cursor>> }
        ELSE { <<cursor, status, Call("update", "fallback", "answer", CursorTs, 0, 0)>>,
               <<cursor, status, Call("update", "fallback", "error", CursorTs, 0, 0)>>,
               <<cursor>> }

\* how a run of the fallback handler ends in an exception: before its say()
\* (the import, get_bot_id, context['user_name']), in its say(), or after it
\* (process_thread_messages, outside the handler's try)
FallbackRaises == {"before say", "in say", "after say"}

\* handle_workflow_error, lines 484-533: the request is answered again by the
\* message handler; an exception goes to the last resort
RequestHandleError ==
    /\ request_pc = "error"
    /\ \/ /\ \E run \in FallbackRuns(FallbackHandler(request_message, request_image)) :
                sink_log' = sink_log \o run
          /\ sink_calls' = Append(sink_calls, Sent("post", "fallback", "cursor"))
          /\ request_pc' = "done"
       \/ /\ \E raises \in FallbackRaises :
                /\ sink_calls' = IF raises = "before say" THEN sink_calls
                                 ELSE Append(sink_calls, Sent("post", "fallback", "cursor"))
                /\ sink_log' = IF raises = "after say" THEN Append(sink_log, CursorPost)
                               ELSE sink_log
          /\ request_pc' = "last_resort"
    /\ UNCHANGED <<request_message, request_image, latest_ts, request_tasks,
                   request_index, aggregated_results, workflow_error>>
    /\ UNCHANGED <<sched_vars, exec_vars, intent_vars, lambda_vars, executor_vars,
                   slack_vars>>

\* a last resort whose say() is not inside try / except
LastResortUnguarded(ok) == ~ok

\* handle_workflow_error, lines 539-545: "except: pass" around the say()
LastResortRaises(ok) == FALSE

\* handle_workflow_error, lines 535-545: one say() of an apology; its failure
\* is dropped
RequestLastResort ==
    /\ request_pc = "last_resort"
    /\ sink_calls' = Append(sink_calls, Sent("post", "fallback", "apology"))
    /\ \E ok \in BOOLEAN :
          /\ sink_log' = SinkCall(sink_log, ok, Sent("post", "fallback", "apology"))
          /\ request_pc' = IF LastResortRaises(ok) THEN "raised" ELSE "done"
    /\ UNCHANGED <<request_message, request_image, latest_ts, request_tasks,
                   request_index, aggregated_results, workflow_error>>
    /\ UNCHANGED <<sched_vars, exec_vars, intent_vars, lambda_vars, executor_vars,
                   slack_vars>>

RequestInit ==
    /\ StreamIdle
    /\ UpdateIdle
    /\ SchedIdle
    /\ ExecIdle
    /\ IntentIdle
    /\ LambdaIdle
    /\ ExecutorIdle
    /\ request_message \in UserMessages
    /\ request_image \in BOOLEAN
    /\ sink_log = <<>>
    /\ sink_calls = <<>>
    /\ latest_ts = NoValue
    /\ request_tasks = <<>>
    /\ request_index = 1
    /\ aggregated_results = NoAggregate
    /\ workflow_error = NoValue
    /\ request_pc = "start"

RequestNext ==
    \/ RequestSay \/ RequestPlan \/ RequestProgress \/ RequestStartTask
    \/ RequestExecuteTask \/ RequestAggregate \/ RequestSend \/ RequestHandleError
    \/ RequestLastResort

SpecRequest == RequestInit /\ [][RequestNext]_vars

\* process_user_request runs on: every call it makes returns or raises
SpecRequestLive == SpecRequest /\ WF_vars(RequestNext)

(***************************************************************************)
(* Properties of the request.                                              *)
(***************************************************************************)
\* the entries of the log with the given op and one of the given texts
Entries(op, texts) ==
    {k \in 1..Len(sink_log) : sink_log[k].op = op /\ sink_log[k].text \in texts}

\* the request resolved to one image_generation task whose generation,
\* download and upload succeeded
SingleImageTaskSucceeded ==
    /\ Len(request_tasks) = 1
    /\ request_tasks[1].type = "image_generation"
    /\ request_tasks[1].status = "completed"
    /\ request_tasks[1].result.kind = "image"

\* C20: when a request resolves to a single image_generation task whose
\* generation, download and upload succeed, then over the whole run of
\* process_user_request the image is uploaded exactly once, and exactly one
\* message carrying the revised prompt is delivered.
SingleImageDeliveredOnce ==
    SingleImageTaskSucceeded =>
        /\ Cardinality(Entries("upload", {"image"})) = 1
        /\ request_pc = "done" =>
              Cardinality(Entries("update", {"revised prompt"})
                          \cup Entries("post", {"revised prompt"})) = 1

\* the calls of update_message the engine issued, in order
StatusCalls ==
    SelectSeq(sink_calls, LAMBDA c : c.op = "update" /\ c.by = "workflow")

\* the progress updates of execute_tasks among them
ProgressCalls == SelectSeq(StatusCalls, LAMBDA c : c.text = "progress")

\* the task list was built and the loop of execute_tasks has ended
TasksDone ==
    /\ \E k \in 1..Len(sink_calls) : sink_calls[k].text = "task count"
    /\ request_index > Len(request_tasks)
    /\ request_pc \notin {"execute", "start_task", "run_task"}

\* every update of the engine targets the message the initial post returned,
\* and the engine posts no message besides that one
StatusUpdatesTargetInitialPost ==
    /\ \A k \in 1..Len(StatusCalls) :
          /\ StatusCalls[k].ts = InitialTs
          /\ \E j \in 1..Len(sink_log) :
                /\ sink_log[j] = Call("post", "workflow", "analyzing", InitialTs, 0, 0)
    /\ \A k \in 1..Len(sink_calls) :
          (sink_calls[k].op = "post" /\ sink_calls[k].by = "workflow") =>
              k = 1 /\ sink_calls[k].text = "analyzing"

\* the progress updates show 1/n, 2/n, ... in this order, and a task that has
\* left pending had its update before
ProgressBeforeRunning ==
    /\ \A j \in 1..Len(ProgressCalls) :
          /\ ProgressCalls[j].index = j
          /\ ProgressCalls[j].total = Len(request_tasks)
    /\ \A k \in 1..Len(request_tasks) :
          request_tasks[k].status # "pending" => Len(ProgressCalls) >= k
    /\ Len(ProgressCalls) <= Len(request_tasks)

\* the final update comes once, after every task, as the last update
FinalUpdateLast ==
    \A k \in 1..Len(StatusCalls) :
        StatusCalls[k].text = "final" =>
            /\ k = Len(StatusCalls)
            /\ Len(ProgressCalls) = Len(request_tasks)
            /\ \A t \in 1..Len(request_tasks) :
                  request_tasks[t].status \in {"completed", "failed"}

\* after the last task the status message gets the final update
FinalUpdateIssued ==
    (TasksDone /\ request_pc = "done") =>
        \E k \in 1..Len(StatusCalls) : StatusCalls[k].text = "final"

\* C21: during one request every progress update targets the message the
\* initial post returned and no new message is posted for progress; the update
\* showing i/n is issued before task i enters running, for i = 1..n in order;
\* after the last task the same message receives the final update and no
\* progress update follows it.
ProgressInOneStatusMessage ==
    /\ StatusUpdatesTargetInitialPost
    /\ ProgressBeforeRunning
    /\ FinalUpdateLast
    /\ FinalUpdateIssued


\* the outcome of task k has reached the conversation: a generated image by
\* the upload_file of the executor, a text and the error of a failed task by
\* the final text of send_final_response, which is the only writer of both
ResultDelivered(k) ==
    IF request_tasks[k].result.kind = "image"
    THEN Cardinality(Entries("upload", {"image"})) >=
             Len(TasksWith(SubSeq(request_tasks, 1, k), "completed", {"image"}))
    ELSE Entries("update", {"final"}) # {}

\* C22: results are delivered per task in scheduled order: the result of task
\* k has been delivered to the conversation before task k+1 starts executing,
\* whatever the outcome of the other tasks.
ResultsDeliveredPerTask ==
    \A k \in 1..(Len(request_tasks) - 1) :
        request_tasks[k + 1].status # "pending" => ResultDelivered(k)


\* the say() calls of the terminal error notification
ApologyCalls == {k \in 1..Len(sink_calls) : sink_calls[k].text = "apology"}

\* nothing of the request reached the conversation: the initial post failed,
\* and so did every later post
SinkFailedThroughout ==
    /\ sink_log = <<>>
    /\ workflow_error = "SlackApiError"

\* no exception leaves process_user_request; the terminal notification is
\* tried at most once and is the last call; no call is issued a second time;
\* with a sink that fails throughout, the calls are the initial post, the
\* cursor of the fallback handler and the notification, each at most once
BestEffortNotification ==
    /\ request_pc # "raised"
    /\ Cardinality(ApologyCalls) <= 1
    /\ \A k \in ApologyCalls : k = Len(sink_calls) /\ request_pc = "done"
    /\ \A j, k \in 1..Len(sink_calls) : j < k => sink_calls[j] # sink_calls[k]
    /\ SinkFailedThroughout =>
          /\ Len(sink_calls) <= 3
          /\ \A k \in 1..Len(sink_calls) : sink_calls[k].op = "post"

\* C23: process_user_request always returns and never raises, whatever the
\* backends and the response sink do; when the sink fails on every post and
\* update, the terminal error notification is attempted at most once and the
\* orchestrator then stops, retrying no sink call.
RequestAlwaysReturns ==
    /\ []BestEffortNotification
    /\ <>(request_pc = "done")

\* the initial post, the cursor of the fallback handler and the terminal
\* notification all failed, and the request has returned
RequestAlwaysReturnsWitness ==
    /\ request_pc = "done"
    /\ SinkFailedThroughout
    /\ sink_calls = << Sent("post", "workflow", "analyzing"),
                       Sent("post", "fallback", "cursor"),
                       Sent("post", "fallback", "apology") >>


\* the number of entries of a list of aggregate_results that name task k
EntriesOf(list, k) == Cardinality({j \in 1..Len(list) : list[j].task = k})

\* the result of the completed task k is in the list of its kind
ResultAggregated(k) ==
    CASE request_tasks[k].result.kind = "text" ->
             EntriesOf(aggregated_results.text_content, k) = 1
      [] request_tasks[k].result.kind = "image" ->
             EntriesOf(aggregated_results.images, k) = 1
      [] request_tasks[k].result.kind = "analysis" ->
             EntriesOf(aggregated_results.analyses, k) = 1
      [] OTHER -> FALSE

\* C26: every failed task contributes exactly one entry, with its description
\* and its error text, to the error list the final response is built from;
\* completed tasks contribute none; and the results of the other tasks are
\* still part of the final response.
FailedTasksReported ==
    TasksDone =>
        \A k \in 1..Len(request_tasks) :
            IF request_tasks[k].status = "failed"
            THEN /\ EntriesOf(aggregated_results.errors, k) = 1
                 /\ \A j \in 1..Len(aggregated_results.errors) :
                       aggregated_results.errors[j].task = k =>
                           aggregated_results.errors[j].error = request_tasks[k].error
                 /\ \A other \in 1..Len(request_tasks) :
                       request_tasks[other].status = "completed" => ResultAggregated(other)
            ELSE EntriesOf(aggregated_results.errors, k) = 0

\* C30: aggregate_results and send_final_response never fail on a result the
\* executor returned for a completed task: once the loop of execute_tasks has
\* ended, no KeyError is raised and every completed task's result is rendered.
ExecutorResultsRenderable ==
    /\ workflow_error # "KeyError"
    /\ TasksDone =>
          \A k \in 1..Len(request_tasks) :
              request_tasks[k].status = "completed" => ResultAggregated(k)


\* the workflow has delivered something for the request: a file was
\* uploaded or the final response was written
WorkflowDelivered ==
    \E k \in 1..Len(sink_log) :
        /\ sink_log[k].by \in {"executor", "workflow"}
        /\ sink_log[k].op = "upload" \/ sink_log[k].text = "final"

\* something the fallback path sent has reached the conversation
FallbackAnswered ==
    \E k \in 1..Len(sink_log) : sink_log[k].by = "fallback"

\* C38: a request is answered through one path only: handle_workflow_error
\* is entered only when the workflow has delivered nothing for the request,
\* so the conversation never holds both workflow output and an answer of the
\* fallback path.
FallbackOnlyWhenNothingDelivered ==
    /\ workflow_error # NoValue => ~WorkflowDelivered
    /\ ~(WorkflowDelivered /\ FallbackAnswered)

(***************************************************************************)
(* SlackMessageUtils.reply_text_stream (src/src/workflow/slack_utils.py);  *)
(* MessageHandler.reply_text has the same body.  Texts are modelled by     *)
(* their lengths.                                                          *)
(***************************************************************************)
\* update_threshold = 800
UpdateThreshold == 800

\* the period of "counter % 24 == 0"
CounterPeriod == 24

\* settings.MAX_LEN_SLACK, by default
MaxLenSlack == 3000

\* the parts of one stream
MaxChunks == 25

\* len(reply) of one part: a part without content, or a piece of text
ChunkLengths == {0, 400}

\* sys.getsizeof of a str of ASCII characters: an object header and one byte
\* per character
SizeOfLength(length) == 49 + length

\* "if buffer_size >= update_threshold or (counter > 0 and counter % 24 == 0)"
ShouldUpdate(buffered, counter) ==
    \/ buffered >= UpdateThreshold
    \/ counter > 0 /\ counter % CounterPeriod = 0

\* len of the message chat_update returns: the message itself, or for a
\* message over the limit the remainder it has split off, which is anything
\* from nothing (the message ends with the separator) to the whole message
StreamRemainders(length) ==
    IF SizeOfLength(length) > MaxLenSlack THEN {0, length} ELSE {length}

StreamUpdate(cursor, buffered, error) ==
    [cursor |-> cursor, buffered |-> buffered, error |-> error]

\* openai_api.generate_chat_completion(stream=True) returns the stream
StreamOpen ==
    /\ stream_pc = "start"
    /\ stream_pc' = "loop"
    /\ UNCHANGED <<stream_counter, stream_message, buffer_size, stream_updates>>
    /\ UNCHANGED <<update_input, update_calls, update_returned, update_pc>>
    /\ UNCHANGED <<sched_vars, exec_vars, intent_vars, lambda_vars, executor_vars,
                   request_vars>>

\* one pass of "for part in stream", lines 94-108
StreamPart ==
    /\ stream_pc = "loop"
    /\ stream_counter < MaxChunks
    /\ \E reply \in ChunkLengths :
          LET message == stream_message + reply
              buffered == buffer_size + reply
          IN  IF ShouldUpdate(buffered, stream_counter)
              THEN /\ stream_message' \in StreamRemainders(message)
                   /\ buffer_size' = 0
                   /\ stream_updates' =
                         Append(stream_updates, StreamUpdate(TRUE, buffered, FALSE))
              ELSE /\ stream_message' = message
                   /\ buffer_size' = buffered
                   /\ UNCHANGED stream_updates
    /\ stream_counter' = stream_counter + 1
    /\ UNCHANGED stream_pc
    /\ UNCHANGED <<update_input, update_calls, update_returned, update_pc>>
    /\ UNCHANGED <<sched_vars, exec_vars, intent_vars, lambda_vars, executor_vars,
                   request_vars>>

\* the stream is used up: line 111 writes the message without the cursor
StreamEnd ==
    /\ stream_pc = "loop"
    /\ stream_updates' = Append(stream_updates, StreamUpdate(FALSE, buffer_size, FALSE))
    /\ stream_pc' = "returned"
    /\ UNCHANGED <<stream_counter, stream_message, buffer_size>>
    /\ UNCHANGED <<update_input, update_calls, update_returned, update_pc>>
    /\ UNCHANGED <<sched_vars, exec_vars, intent_vars, lambda_vars, executor_vars,
                   request_vars>>

\* lines 115-119: the backend call or the stream raises, the error text is
\* written in place of the message
StreamRaise ==
    /\ stream_pc \in {"start", "loop"}
    /\ stream_updates' = Append(stream_updates, StreamUpdate(FALSE, buffer_size, TRUE))
    /\ stream_pc' = "returned"
    /\ UNCHANGED <<stream_counter, stream_message, buffer_size>>
    /\ UNCHANGED <<update_input, update_calls, update_returned, update_pc>>
    /\ UNCHANGED <<sched_vars, exec_vars, intent_vars, lambda_vars, executor_vars,
                   request_vars>>

StreamInit ==
    /\ SchedIdle
    /\ ExecIdle
    /\ IntentIdle
    /\ LambdaIdle
    /\ ExecutorIdle
    /\ RequestIdle
    /\ UpdateIdle
    /\ stream_counter = 0
    /\ stream_message = 0
    /\ buffer_size = 0
    /\ stream_updates = <<>>
    /\ stream_pc = "start"

StreamNext == StreamOpen \/ StreamPart \/ StreamEnd \/ StreamRaise

SpecStream == StreamInit /\ [][StreamNext]_vars

\* C33: reply_text_stream sends an intermediate, cursor-bearing update only
\* when at least UpdateThreshold characters have accumulated since the
\* previous update; the number of parts received does not trigger one.
UpdatesOnlyAtThreshold ==
    \A k \in 1..Len(stream_updates) :
        stream_updates[k].cursor => stream_updates[k].buffered >= UpdateThreshold

(***************************************************************************)
(* SlackMessageUtils.chat_update (src/src/workflow/slack_utils.py);        *)
(* MessageHandler.chat_update has the same body.  A message is a sequence  *)
(* of tokens: "a" is a run of BlockChars ordinary characters, "NL2" the    *)
(* blank line "\n\n", "FENCE" the code fence, "BOLD" the marker "**" and   *)
(* "STAR" the "*" that replace_text writes for it.                         *)
(***************************************************************************)
BlockChars == 1500

MaxMessageTokens == 4

MessageTokens == {"a", "NL2", "FENCE", "BOLD"}

\* the messages chat_update is called with
UpdateMessages == UNION {[1..n -> MessageTokens] : n \in 0..MaxMessageTokens}

TokenChars(token) ==
    CASE token = "a" -> BlockChars
      [] token = "NL2" -> 2
      [] token = "FENCE" -> 3
      [] token = "BOLD" -> 2
      [] token = "STAR" -> 1

RECURSIVE Chars(_)
\* len(message)
Chars(message) ==
    IF message = <<>> THEN 0 ELSE TokenChars(Head(message)) + Chars(Tail(message))

\* sys.getsizeof(message)
SizeOf(message) == SizeOfLength(Chars(message))

RECURSIVE Split(_, _)
\* message.split(split_key): the list of the parts between the separators
Split(message, split_key) ==
    IF message = <<>> THEN << <<>> >>
    ELSE LET rest == Split(Tail(message), split_key)
         IN  IF Head(message) = split_key
             THEN << <<>> >> \o rest
             ELSE << <<Head(message)>> \o rest[1] >> \o Tail(rest)

RECURSIVE Join(_, _)
\* split_key.join(parts)
Join(parts, split_key) ==
    IF parts = <<>> THEN <<>>
    ELSE IF Len(parts) = 1 THEN parts[1]
    ELSE parts[1] \o <<split_key>> \o Join(Tail(parts), split_key)

\* slack_api.replace_text with CONVERSION_ARRAY = [["**", "*"]]
ReplaceText(text) ==
    [k \in 1..Len(text) |-> IF text[k] = "BOLD" THEN "STAR" ELSE text[k]]

\* lines 28-30
SplitKey(message) ==
    IF \E k \in 1..Len(message) : message[k] = "FENCE" THEN "FENCE" ELSE "NL2"

\* lines 32-41: the text for the existing message and the remainder
SplitMessage(message) ==
    LET split_key == SplitKey(message)
        all_parts == Split(message, split_key)
        last_one  == all_parts[Len(all_parts)]
        parts     == SubSeq(all_parts, 1, Len(all_parts) - 1)
    IN  IF Len(parts) % 2 = 0
        THEN [text |-> Join(parts, split_key) \o <<split_key>>, message |-> last_one]
        ELSE [text |-> Join(parts, split_key), message |-> <<split_key>> \o last_one]

\* one call of the chat platform made by chat_update
PlatformCall(op, text, cursor, ok) ==
    [op |-> op, text |-> text, cursor |-> cursor, ok |-> ok]

\* lines 26-55 and 66-74: the message is over the limit; update_message
\* writes the first text, say posts the remainder; an exception of either is
\* logged and the remainder is returned
ChatUpdateSplit ==
    /\ update_pc = "call"
    /\ SizeOf(update_input.message) > MaxLenSlack
    /\ LET split == SplitMessage(update_input.message)
           first == PlatformCall("update_message", ReplaceText(split.text), FALSE, TRUE)
           post  == PlatformCall("say", ReplaceText(split.message),
                                 update_input.continue_thread, TRUE)
       IN  /\ \/ update_calls' = <<[first EXCEPT !.ok = FALSE]>>
              \/ update_calls' = <<first, [post EXCEPT !.ok = FALSE]>>
              \/ update_calls' = <<first, post>>
           /\ update_returned' = split.message
    /\ update_pc' = "returned"
    /\ UNCHANGED update_input
    /\ UNCHANGED <<stream_counter, stream_message, buffer_size, stream_updates, stream_pc>>
    /\ UNCHANGED <<sched_vars, exec_vars, intent_vars, lambda_vars, executor_vars,
                   request_vars>>

\* lines 56-74: the message is within the limit and is written to the
\* existing message
ChatUpdateWhole ==
    /\ update_pc = "call"
    /\ SizeOf(update_input.message) <= MaxLenSlack
    /\ \E ok \in BOOLEAN :
          update_calls' = <<PlatformCall("update_message", ReplaceText(update_input.message),
                                         update_input.continue_thread, ok)>>
    /\ update_returned' = update_input.message
    /\ update_pc' = "returned"
    /\ UNCHANGED update_input
    /\ UNCHANGED <<stream_counter, stream_message, buffer_size, stream_updates, stream_pc>>
    /\ UNCHANGED <<sched_vars, exec_vars, intent_vars, lambda_vars, executor_vars,
                   request_vars>>

UpdateInit ==
    /\ SchedIdle
    /\ ExecIdle
    /\ IntentIdle
    /\ LambdaIdle
    /\ ExecutorIdle
    /\ RequestIdle
    /\ StreamIdle
    /\ update_input \in [message : UpdateMessages, continue_thread : BOOLEAN]
    /\ update_calls = <<>>
    /\ update_returned = NoValue
    /\ update_pc = "call"

UpdateNext == ChatUpdateSplit \/ ChatUpdateWhole

SpecUpdate == UpdateInit /\ [][UpdateNext]_vars

\* chat_update has split the message and both platform calls went through
SplitDelivered ==
    /\ update_pc = "returned"
    /\ SizeOf(update_input.message) > MaxLenSlack
    /\ Len(update_calls) = 2
    /\ update_calls[2].ok

\* C39: when chat_update splits a message over the limit, the text written
\* to the existing message followed by the text posted as the new message is
\* the original message (as replace_text formats it), the remainder is
\* strictly shorter than the original, and at most one new message is
\* posted; also for a message without a separator.
SplitKeepsContent ==
    /\ Len(SelectSeq(update_calls, LAMBDA c : c.op = "say")) <= 1
    /\ SplitDelivered =>
          /\ update_calls[1].text \o update_calls[2].text
                = ReplaceText(update_input.message)
          /\ Chars(update_returned) < Chars(update_input.message)

\* the split of a message that has the separator somewhere after its start
SplitKeepsContentWithSeparator ==
    ( /\ SplitDelivered
      /\ \E k \in 2..Len(update_input.message) :
            update_input.message[k] = SplitKey(update_input.message) ) =>
        /\ update_calls[1].text \o update_calls[2].text
              = ReplaceText(update_input.message)
        /\ Chars(update_returned) < Chars(update_input.message)

(***************************************************************************)
(* lambda_handler, get_context, put_context (src/handler.py)               *)
(***************************************************************************)
\* lambda_handler invocations that may overlap (one per platform delivery)
NumInvocations == 2

Invocations == 1..NumInvocations

\* client_msg_id values, users and event texts of the deliveries
Tokens == {"m1", "m2"}
Users == {"U1"}
Texts == {"", "hi"}

\* the bodies lambda_handler tells apart: a URL-verification challenge, a
\* body without event / client_msg_id, and a message event
Bodies ==
    {[kind |-> k, token |-> NoValue, user |-> NoValue, text |-> ""] :
         k \in {"challenge", "no_client_msg_id"}}
    \cup [kind : {"message"}, token : Tokens, user : Users, text : Texts]

\* the item id get_context and put_context use
ContextKey(thread_ts, user) == IF thread_ts = NoValue THEN user ELSE thread_ts

\* get_context(thread_ts, user, default="")
GetContext(tbl, thread_ts, user) ==
    IF ContextKey(thread_ts, user) \in DOMAIN tbl
    THEN tbl[ContextKey(thread_ts, user)]
    ELSE ""

\* put_context(thread_ts, user, conversation)
PutContext(tbl, thread_ts, user, conversation) ==
    [id \in DOMAIN tbl \cup {ContextKey(thread_ts, user)} |->
        IF id = ContextKey(thread_ts, user) THEN conversation ELSE tbl[id]]

\* the "+ 3600" of put_context, in hours
OneHour == 1

\* the hours the clock runs through
MaxClock == 2

\* the item under the id is past its expire_at
Expired(id) == id \in DOMAIN table /\ expire_at[id] < clock

\* lambda_handler up to the duplicate test on the body
Receive(p) ==
    /\ inv_pc[p] = "start"
    /\ \E body \in Bodies :
          /\ inv_body' = [inv_body EXCEPT ![p] = body]
          /\ inv_pc' = [inv_pc EXCEPT ![p] =
                           IF body.kind = "message" THEN "get" ELSE "returned"]
          /\ inv_retry' = [inv_retry EXCEPT ![p] =
                              /\ body.kind = "message"
                              /\ \E q \in Invocations \ {p} :
                                    /\ inv_body[q] = body
                                    /\ inv_handled[q]
                                    /\ inv_pc[q] = "returned"]
    /\ UNCHANGED <<table, expired_keys, inv_prompt, inv_entry_seen, inv_handled, clock,
                   expire_at, inv_expired, inv_written>>
    /\ UNCHANGED <<sched_vars, exec_vars, intent_vars, executor_vars, request_vars,
                   slack_vars>>

\* prompt = get_context(token, user); if prompt != "": return 200 Success
ReadToken(p) ==
    /\ inv_pc[p] = "get"
    /\ LET body == inv_body[p]
           prompt == GetContext(table, body.token, body.user)
       IN  /\ inv_prompt' = [inv_prompt EXCEPT ![p] = prompt]
           /\ inv_entry_seen' = [inv_entry_seen EXCEPT ![p] =
                                    ContextKey(body.token, body.user) \in DOMAIN table]
           /\ inv_expired' = [inv_expired EXCEPT ![p] =
                                 Expired(ContextKey(body.token, body.user))]
           /\ inv_pc' = [inv_pc EXCEPT ![p] = IF prompt # "" THEN "returned" ELSE "put"]
    /\ UNCHANGED <<table, expired_keys, inv_body, inv_handled, clock, expire_at,
                   inv_written, inv_retry>>
    /\ UNCHANGED <<sched_vars, exec_vars, intent_vars, executor_vars, request_vars,
                   slack_vars>>

\* put_context(token, user, body["event"]["text"]), with
\* expire_at = int(time.time()) + 3600
WriteToken(p) ==
    /\ inv_pc[p] = "put"
    /\ table' = PutContext(table, inv_body[p].token, inv_body[p].user, inv_body[p].text)
    /\ expire_at' = PutContext(expire_at, inv_body[p].token, inv_body[p].user,
                               clock + OneHour)
    /\ inv_written' = [inv_written EXCEPT ![p] = TRUE]
    /\ inv_pc' = [inv_pc EXCEPT ![p] = "handle"]
    /\ UNCHANGED <<expired_keys, inv_body, inv_prompt, inv_entry_seen, inv_handled,
                   clock, inv_expired, inv_retry>>
    /\ UNCHANGED <<sched_vars, exec_vars, intent_vars, executor_vars, request_vars,
                   slack_vars>>

\* return handler.handle(event, context); whether it returns or raises leaves
\* no trace in the state of lambda_handler
HandleEvent(p) ==
    /\ inv_pc[p] = "handle"
    /\ inv_handled' = [inv_handled EXCEPT ![p] = TRUE]
    /\ inv_pc' = [inv_pc EXCEPT ![p] = "returned"]
    /\ UNCHANGED <<table, expired_keys, inv_body, inv_prompt, inv_entry_seen, clock,
                   expire_at, inv_expired, inv_written, inv_retry>>
    /\ UNCHANGED <<sched_vars, exec_vars, intent_vars, executor_vars, request_vars,
                   slack_vars>>

\* an hour passes
Tick ==
    /\ clock < MaxClock
    /\ clock' = clock + 1
    /\ UNCHANGED <<table, expired_keys, inv_body, inv_prompt, inv_entry_seen,
                   inv_handled, inv_pc, expire_at, inv_expired, inv_written, inv_retry>>
    /\ UNCHANGED <<sched_vars, exec_vars, intent_vars, executor_vars, request_vars,
                   slack_vars>>

\* the table's TTL on expire_at deletes an item at some time after the item's
\* expire_at has passed
ExpireItem(id) ==
    /\ Expired(id)
    /\ table' = [k \in DOMAIN table \ {id} |-> table[k]]
    /\ expire_at' = [k \in DOMAIN expire_at \ {id} |-> expire_at[k]]
    /\ expired_keys' = expired_keys \cup {id}
    /\ UNCHANGED <<inv_body, inv_prompt, inv_entry_seen, inv_handled, inv_pc, clock,
                   inv_expired, inv_written, inv_retry>>
    /\ UNCHANGED <<sched_vars, exec_vars, intent_vars, executor_vars, request_vars,
                   slack_vars>>

LambdaInit ==
    /\ StreamIdle
    /\ UpdateIdle
    /\ ExecutorIdle
    /\ RequestIdle
    /\ SchedIdle
    /\ ExecIdle
    /\ IntentIdle
    /\ table = <<>>
    /\ expired_keys = {}
    /\ inv_body = [p \in Invocations |->
                      [kind |-> "challenge", token |-> NoValue, user |-> NoValue, text |-> ""]]
    /\ inv_prompt = [p \in Invocations |-> ""]
    /\ inv_entry_seen = [p \in Invocations |-> FALSE]
    /\ inv_handled = [p \in Invocations |-> FALSE]
    /\ inv_pc = [p \in Invocations |-> "start"]
    /\ clock = 0
    /\ expire_at = <<>>
    /\ inv_expired = [p \in Invocations |-> FALSE]
    /\ inv_written = [p \in Invocations |-> FALSE]
    /\ inv_retry = [p \in Invocations |-> FALSE]

LambdaNext ==
    \/ \E p \in Invocations : Receive(p) \/ ReadToken(p) \/ WriteToken(p) \/ HandleEvent(p)
    \/ \E id \in Tokens \cup Users : ExpireItem(id)
    \/ Tick

SpecLambda == LambdaInit /\ [][LambdaNext]_vars

(***************************************************************************)
(* Properties of the duplicate suppression.                                *)
(***************************************************************************)
IsMessage(p) == inv_body[p].kind = "message"

\* C7: a delivery whose client_msg_id has an unexpired cache entry is answered
\* without invoking the event handler, for any event text, the empty text
\* included; the handler runs for the delivery that finds no entry.
DuplicateDeliverySuppressed ==
    \A p \in Invocations :
        (inv_pc[p] = "returned" /\ IsMessage(p)) => (inv_handled[p] <=> ~inv_entry_seen[p])

\* C8: the event handler is invoked at most once per client_msg_id, also when
\* the invocations for it overlap (stated for the deliveries C7's empty text
\* and the expiry do not touch: non-empty text, entry never expired).
HandledAtMostOnce ==
    \A p, q \in Invocations :
        ( /\ p # q
          /\ IsMessage(p) /\ IsMessage(q)
          /\ inv_body[p].token = inv_body[q].token
          /\ inv_body[p].text # "" /\ inv_body[q].text # ""
          /\ inv_body[p].token \notin expired_keys
          /\ inv_handled[p] )
        => ~inv_handled[q]

\* C27: a cache entry stops being returned once its one-hour expiry has
\* passed: a get_context that finds the stored entry of its key past expire_at
\* returns the default "", so the delivery is processed again.
ExpiredEntryNotReturned ==
    \A p \in Invocations :
        (IsMessage(p) /\ inv_expired[p]) =>
            /\ inv_prompt[p] = ""
            /\ inv_pc[p] = "returned" => inv_handled[p]

\* the token is written before the handler is invoked, in every run that
\* invokes the handler
HandlerRunsAfterWrite ==
    \A p \in Invocations :
        (inv_pc[p] = "handle" \/ inv_handled[p]) =>
            /\ inv_written[p]
            /\ inv_body[p].token \in DOMAIN table \/ inv_body[p].token \in expired_keys

\* C28: the token is written to the cache before the event handler is
\* invoked, in every run that invokes the handler; so a redelivery of an event
\* whose earlier delivery reached the handler is suppressed as long as the
\* entry has not expired, whatever the handler did.
WrittenBeforeHandled ==
    /\ HandlerRunsAfterWrite
    /\ \A p \in Invocations :
          ( /\ inv_retry[p]
            /\ inv_pc[p] = "returned"
            /\ ~inv_expired[p]
            /\ inv_body[p].token \notin expired_keys )
          => ~inv_handled[p]

(***************************************************************************)
(* Properties of the scheduler.                                            *)
(***************************************************************************)
IsPermutation(s1, s2) ==
    /\ Len(s1) = Len(s2)
    /\ \A k \in 1..Len(s2) : Count(s1, s2[k]) = Count(s2, s2[k])

HasDuplicateTask(seq) == \E j, k \in 1..Len(seq) : j < k /\ seq[j] = seq[k]

\* C3: sort_tasks_by_dependency returns a permutation of its input list: no
\* task is dropped or duplicated, whatever the dependencies are (acyclic,
\* cyclic, self-referencing, naming unknown ids).
SortIsPermutation ==
    /\ sched_pc = "loop" => IsPermutation(sorted_tasks \o remaining_tasks, tasks)
    /\ sched_pc = "done" => IsPermutation(sorted_tasks, tasks)

\* a returned list of MaxTasks tasks with two equal tasks, an unknown
\* dependency id and a cycle break
SortIsPermutationWitness ==
    /\ sched_pc = "done"
    /\ Len(tasks) = MaxTasks
    /\ HasDuplicateTask(tasks)
    /\ \E k \in 1..Len(tasks) : GhostId \in tasks[k].dependencies
    /\ cycle_breaks # {}

\* C4: the while loop of sort_tasks_by_dependency terminates: every
\* iteration moves at least one task out of remaining_tasks, so with N tasks
\* the loop runs at most N <= 2N iterations, cycles included, and then
\* returns.
SortIterationBound ==
    /\ iterations <= 2 * Len(intent_tasks)
    /\ sched_pc = "loop" => iterations + Len(remaining_tasks) <= Len(tasks)
    /\ (sched_pc = "loop" /\ remaining_tasks # <<>>) =>
          IterationTasks(remaining_tasks, sorted_tasks) # <<>>

\* a finished sort of MaxTasks tasks that needed a cycle break and more than
\* one iteration
SortIterationBoundWitness ==
    /\ sched_pc = "done"
    /\ Len(tasks) = MaxTasks
    /\ cycle_breaks # {}
    /\ iterations > 1

\* position k of seq holds the lowest priority number of seq, and is the first
\* position that does
FirstLowestPriority(seq, k) ==
    /\ \A j \in 1..Len(seq) : seq[k].priority <= seq[j].priority
    /\ \A j \in 1..(k - 1) : seq[k].priority < seq[j].priority

\* seq without its position k
WithoutPosition(seq, k) == SubSeq(seq, 1, k - 1) \o SubSeq(seq, k + 1, Len(seq))

\* C29: an iteration of sort_tasks_by_dependency takes the cycle-break
\* branch only when no remaining task has all its dependencies scheduled, and
\* the branch schedules exactly one task: the remaining task with the lowest
\* priority number, the first such task in input order on a tie.  An
\* iteration in which some task is ready schedules ready tasks only.
CycleBreakSchedulesLowest ==
    [][ iterations' # iterations =>
          IF ReadyTasks(remaining_tasks, sorted_tasks) = <<>>
          THEN /\ cycle_breaks' # cycle_breaks
               /\ \E k \in 1..Len(remaining_tasks) :
                     /\ FirstLowestPriority(remaining_tasks, k)
                     /\ sorted_tasks' = Append(sorted_tasks, remaining_tasks[k])
                     /\ remaining_tasks' = WithoutPosition(remaining_tasks, k)
          ELSE /\ cycle_breaks' = cycle_breaks
               /\ \A k \in (Len(sorted_tasks) + 1)..Len(sorted_tasks') :
                     DependenciesMet(sorted_tasks'[k], sorted_tasks)
      ]_vars

\* a cycle break has scheduled a task that was not the first of the remaining
\* ones, and left behind a task of the same priority and a task of a higher
\* priority number that came before it in the input
CycleBreakSchedulesLowestWitness ==
    \E pos \in cycle_breaks :
        /\ pos <= Len(sorted_tasks)
        /\ \E j, k \in 1..Len(remaining_tasks) :
              /\ remaining_tasks[j].priority = sorted_tasks[pos].priority
              /\ remaining_tasks[k].priority > sorted_tasks[pos].priority
        /\ \E i, j \in 1..Len(tasks) :
              /\ i < j
              /\ tasks[j] = sorted_tasks[pos]
              /\ tasks[i].priority > tasks[j].priority
              /\ tasks[i] # tasks[j]

\* the dependency relation on ids: x -> d iff a task with id x names d
DepEdges(seq) ==
    UNION {{<<seq[k].id, d>> : d \in seq[k].dependencies} : k \in 1..Len(seq)}

RECURSIVE ReachableIds(_, _)
\* the ids reachable from the set S along the edges E
ReachableIds(S, E) ==
    LET step == S \cup {e[2] : e \in {f \in E : f[1] \in S}}
    IN  IF step = S THEN S ELSE ReachableIds(step, E)

Acyclic(seq) ==
    \A k \in 1..Len(seq) :
        seq[k].id \notin ReachableIds(seq[k].dependencies, DepEdges(seq))

DepsInIntent(seq) == \A k \in 1..Len(seq) : seq[k].dependencies \subseteq IdsOf(seq)

\* C5: for an acyclic intent whose depends_on ids all belong to the intent,
\* every task is placed after the tasks it depends on (after a task carrying
\* each id it names, and after every such task when ids are unique), whatever
\* the priorities are.
SortRespectsDependencies ==
    (sched_pc = "done" /\ Acyclic(tasks) /\ DepsInIntent(tasks)) =>
        /\ cycle_breaks = {}
        /\ \A k \in 1..Len(sorted_tasks) :
              \A d \in sorted_tasks[k].dependencies :
                  /\ \E j \in 1..(k - 1) : sorted_tasks[j].id = d
                  /\ UniqueIds(tasks) =>
                        \A j \in 1..Len(sorted_tasks) : sorted_tasks[j].id = d => j < k

\* an acyclic intent of MaxTasks tasks in which a task with two dependencies
\* has a lower priority number than a task it depends on
SortRespectsDependenciesWitness ==
    /\ sched_pc = "done"
    /\ Acyclic(tasks) /\ DepsInIntent(tasks) /\ UniqueIds(tasks)
    /\ Len(tasks) = MaxTasks
    /\ \E j, k \in 1..Len(tasks) :
          /\ Cardinality(tasks[k].dependencies) = 2
          /\ tasks[j].id \in tasks[k].dependencies
          /\ tasks[k].priority < tasks[j].priority

\* position k of sorted_tasks holds a task one of whose in-intent dependencies
\* has not been placed before it
PlacedBeforeDependency(k) ==
    \E d \in sorted_tasks[k].dependencies :
        /\ d \in IdsOf(tasks)
        /\ ~\E j \in 1..(k - 1) : sorted_tasks[j].id = d

\* the task is on no dependency cycle, and the ids it depends on, directly or
\* transitively, all belong to the intent and are on no cycle
OffCycles(task, seq) ==
    LET needed == ReachableIds(task.dependencies, DepEdges(seq))
    IN  /\ task.id \notin needed
        /\ needed \subseteq IdsOf(seq)
        /\ \A k \in 1..Len(seq) :
              seq[k].id \in needed =>
                  seq[k].id \notin ReachableIds(seq[k].dependencies, DepEdges(seq))

\* C37: in the order sort_tasks_by_dependency builds, every task placed
\* before one of its in-intent dependencies (no task carrying the id was
\* placed before it) was selected by a cycle-break step; a task that is on
\* no cycle and depends, directly or transitively, on no task of a cycle and
\* on no unknown id is never selected by a cycle break and is placed after
\* its dependencies (after a task carrying each id it names, and after every
\* such task when ids are unique).
InversionsOnlyByCycleBreak ==
    \A k \in 1..Len(sorted_tasks) :
        /\ PlacedBeforeDependency(k) => k \in cycle_breaks
        /\ OffCycles(sorted_tasks[k], tasks) =>
              /\ k \notin cycle_breaks
              /\ \A d \in sorted_tasks[k].dependencies :
                    /\ \E j \in 1..(k - 1) : sorted_tasks[j].id = d
                    /\ (sched_pc = "done" /\ UniqueIds(tasks)) =>
                          \A j \in 1..Len(sorted_tasks) :
                              sorted_tasks[j].id = d => j < k

\* a returned order of MaxTasks tasks with unique ids: a task placed by a
\* cycle break with a dependency not placed before it, and a task with a
\* dependency that is off the cycles
InversionsOnlyByCycleBreakWitness ==
    /\ sched_pc = "done"
    /\ Len(tasks) = MaxTasks
    /\ UniqueIds(tasks)
    /\ \E k \in cycle_breaks : PlacedBeforeDependency(k)
    /\ \E k \in 1..Len(sorted_tasks) :
          /\ sorted_tasks[k].dependencies # {}
          /\ OffCycles(sorted_tasks[k], tasks)

\* C6: for an intent of N tasks without dependencies, create_task_list returns
\* exactly N tasks in ascending order of priority.
SortNoDependenciesByPriority ==
    (sched_pc = "done" /\ \A k \in 1..Len(intent_tasks) :
                              Get(intent_tasks[k].depends_on, {}) = {}) =>
        /\ Len(sorted_tasks) = Len(intent_tasks)
        /\ \A j, k \in 1..Len(sorted_tasks) :
              j < k => sorted_tasks[j].priority <= sorted_tasks[k].priority

\* MaxTasks tasks without dependencies, given in an order that is not
\* ascending, one of them with the default priority
SortNoDependenciesByPriorityWitness ==
    /\ sched_pc = "done"
    /\ Len(intent_tasks) = MaxTasks
    /\ \A k \in 1..Len(tasks) : tasks[k].dependencies = {}
    /\ \E k \in 1..Len(intent_tasks) : intent_tasks[k].priority = {}
    /\ \E j, k \in 1..Len(tasks) : j < k /\ tasks[j].priority > tasks[k].priority

\* the intent whose required_tasks are the given task_info objects, as the
\* JSON value parse_intent_response validates
IntentOf(infos) ==
    [ jtype |-> "dict",
      has   |-> IntentFields,
      tasks |-> [ jtype |-> "list",
                  elems |-> [k \in 1..Len(infos) |->
                               [ jtype      |-> "dict",
                                 has        |-> TaskFields
                                                \cup (IF infos[k].priority = {} THEN {}
                                                      ELSE {"priority"})
                                                \cup (IF infos[k].depends_on = {} THEN {}
                                                      ELSE {"depends_on"}),
                                 task_type  |-> infos[k].task_type,
                                 depends_on |-> infos[k].depends_on ]] ] ]

\* C19: an intent in which a depends_on names an id no task of the intent
\* carries is rejected as a validation error: no such intent passes the
\* validation of parse_intent_response and is then turned into a task list
\* or scheduled by the cycle-break branch.
DanglingDependencyRejected ==
    ( /\ ~DepsInIntent(BuildTasks(intent_tasks))
      /\ ValidateIntent(IntentOf(intent_tasks)) = NoValue )
    => /\ sched_pc = "create"
       /\ cycle_breaks = {}

(***************************************************************************)
(* Properties of the execution loop.                                       *)
(***************************************************************************)
Terminal == {"completed", "failed"}

StatusAt(k) == task_list[k].status

\* C1: a failure of a task never prevents the later tasks from running: no
\* exception leaves execute_tasks, no task is attempted twice, and when the
\* loop returns every task was attempted exactly once and is completed or
\* failed.
ExecTasksIsolated ==
    /\ exec_pc # "raised"
    /\ \A k \in 1..Len(task_list) : attempts[k] <= 1
    /\ exec_pc = "done" =>
          \A k \in 1..Len(task_list) : attempts[k] = 1 /\ StatusAt(k) \in Terminal

\* a finished loop over MaxTasks tasks whose first task failed and whose last
\* task completed
ExecTasksIsolatedWitness ==
    /\ exec_pc = "done"
    /\ Len(task_list) = MaxTasks
    /\ StatusAt(1) = "failed"
    /\ StatusAt(MaxTasks) = "completed"
    /\ \A k \in 1..Len(task_list) : attempts[k] = 1

LegalStatusStep(before, after) ==
    \/ after = before
    \/ before = "pending" /\ after = "running"
    \/ before = "running" /\ after \in Terminal

\* C9: a task's status only moves pending -> running -> completed or
\* pending -> running -> failed: every task starts pending, none goes from
\* pending to a terminal status, and a terminal status never changes.
StatusLifecycle ==
    /\ \A k \in 1..Len(task_list) : StatusAt(k) = "pending"
    /\ [][ /\ Len(task_list') = Len(task_list)
           /\ \A k \in 1..Len(task_list) :
                 LegalStatusStep(task_list[k].status, task_list'[k].status) ]_vars

\* a finished loop with a completed and a failed task, after a progress
\* update for each task
StatusLifecycleWitness ==
    /\ exec_pc = "done"
    /\ progress_count = Len(task_list)
    /\ \E j, k \in 1..Len(task_list) :
          StatusAt(j) = "completed" /\ StatusAt(k) = "failed"

\* C10: tasks start in the scheduled order, one at a time: at most one task
\* is running, and a task has left pending only if every task scheduled
\* before it is completed or failed.
OneTaskAtATime ==
    /\ Cardinality({k \in 1..Len(task_list) : StatusAt(k) = "running"}) <= 1
    /\ \A j, k \in 1..Len(task_list) :
          (j < k /\ StatusAt(k) # "pending") => StatusAt(j) \in Terminal

\* the second of MaxTasks tasks is running after the first completed, the
\* rest still pending
OneTaskAtATimeWitness ==
    /\ Len(task_list) = MaxTasks
    /\ StatusAt(1) = "completed"
    /\ StatusAt(2) = "running"
    /\ \A k \in 3..Len(task_list) : StatusAt(k) = "pending"

\* the task types execute_single_task has a branch for
SupportedTypes ==
    {"text_generation", "image_generation", "image_analysis", "thread_summary",
     "gemini_text_generation", "gemini_image_generation", "gemini_video_generation",
     "gemini_image_analysis"}

\* the task type is none of them
UnknownType(type) == type # NoValue /\ type \notin SupportedTypes

\* C25: for a task whose type is not one of the supported ones,
\* execute_single_task raises the ValueError whose message names the type
\* and makes no backend call and no chat-platform call; inside execute_tasks
\* this marks that task as failed, and only that task.
UnknownTypeFailsFast ==
    /\ UnknownType(single_task.type) =>
          /\ calls = NoCalls
          /\ task_result = NoResult
          /\ executor_pc \in {"start", "raised", "idle"}
          /\ executor_pc # "start" =>
                task_raised = [at |-> "dispatch", message |-> single_task.type]
    /\ exec_pc # "raised"
    /\ \A k \in 1..Len(task_list) :
          /\ attempts[k] <= 1
          /\ (UnknownType(task_list[k].type) /\ StatusAt(k) \in Terminal) =>
                /\ StatusAt(k) = "failed"
                /\ task_list[k].error = "ValueError"
                /\ task_list[k].result = NoValue
          /\ (~UnknownType(task_list[k].type) /\ StatusAt(k) = "failed") =>
                task_list[k].error # "ValueError"
          /\ exec_pc = "done" => attempts[k] = 1 /\ StatusAt(k) \in Terminal

\* the loop has returned: its first task, of an unknown type, failed without
\* a call, and the text task after it completed
UnknownTypeFailsFastWitness ==
    /\ exec_pc = "done"
    /\ Len(task_list) = 2
    /\ task_list[1].type = "video_editing"
    /\ StatusAt(1) = "failed"
    /\ task_list[1].error = "ValueError"
    /\ task_list[2].type = "text_generation"
    /\ StatusAt(2) = "completed"

\* aggregate_results, lines 305-306 and 343-347: the summary of the results
\* dict
AggregateSummary(task_results) ==
    [ total_tasks |-> Cardinality(DOMAIN task_results),
      successful  |-> Cardinality({id \in DOMAIN task_results :
                                      task_results[id].status = "completed"}),
      failed      |-> Cardinality({id \in DOMAIN task_results :
                                      task_results[id].status = "failed"}) ]

\* C35: when execute_tasks has returned, every scheduled task has its own
\* entry in the results and none has overwritten another's, so the summary
\* of aggregate_results has successful + failed = total_tasks = the number
\* of scheduled tasks.
EveryTaskHasOwnEntry ==
    exec_pc = "done" =>
        /\ \A k \in 1..Len(task_list) :
              /\ task_list[k].id \in DOMAIN results
              /\ results[task_list[k].id] = task_list[k]
        /\ AggregateSummary(results).total_tasks = Len(task_list)
        /\ AggregateSummary(results).successful + AggregateSummary(results).failed
              = AggregateSummary(results).total_tasks

\* C36: in every state of the execution loop a completed task has a result
\* and no error, a failed task has an error and no result, and a pending or
\* running task has neither.
StatusMatchesOutcome ==
    \A k \in 1..Len(task_list) :
        /\ StatusAt(k) \in {"pending", "running", "completed", "failed"}
        /\ StatusAt(k) = "completed" =>
              task_list[k].result # NoValue /\ task_list[k].error = NoValue
        /\ StatusAt(k) = "failed" =>
              task_list[k].error # NoValue /\ task_list[k].result = NoValue
        /\ StatusAt(k) \in {"pending", "running"} =>
              task_list[k].result = NoValue /\ task_list[k].error = NoValue

\* a completed, a failed and a running task at once
StatusMatchesOutcomeWitness ==
    /\ Len(task_list) = MaxTasks
    /\ StatusAt(1) = "completed" /\ task_list[1].result # NoValue
    /\ StatusAt(2) = "failed" /\ task_list[2].error # NoValue
    /\ StatusAt(3) = "running"

====
